---------------------------- MODULE Spec2Model ----------------------------
(***************************************************************************)
(* Type tags of the Move VM (move-core-types/src/language_storage.rs):     *)
(* TypeTag, StructTag and ModuleId, their canonical rendering, the         *)
(* grammar parser behind FromStr, the derived ordering, the abstract size  *)
(* used for gas metering, the address traversal, the serde encoding and    *)
(* Display; and the start and genesis commands of the sui CLI              *)
(* (crates/sui/src/sui_commands.rs): the checks of start, the swarm it     *)
(* builds and the services it starts, in order; what genesis reads and     *)
(* writes in the Sui config directory; parse_host_port.                    *)
(*                                                                         *)
(* Text is a sequence of one-character strings.  An AccountAddress is its  *)
(* array of LENGTH bytes.  An Identifier is its sequence of characters.    *)
(***************************************************************************)
EXTENDS Integers, Sequences, FiniteSets, TLC

VARIABLES
    v,            \* the TypeTag value the operations are applied to
    pc,           \* the operation applied last
    kind,         \* which type's method was called: TypeTag, StructTag, ModuleId
    with_prefix,  \* the flag given to to_canonical_string
    text,         \* the String returned by to_canonical_string
    parsed,       \* the Result returned by from_str(text)
    size,         \* the AbstractMemorySize returned
    addrs,        \* the IndexSet returned by all_addresses, in insertion order
    other,        \* the right operand of cmp
    ord,          \* the Ordering returned by cmp
    json,         \* the serde encoding: written by serialize, read by deserialize
    start_args,   \* sui start: the arguments of start
    file_system,  \* sui start: what the file system holds when start is called
    at,           \* sui start, sui genesis: the part of the command that runs next
    with_indexer, \* sui start: the local with_indexer
    data_ingestion_dir,  \* sui start: the local data_ingestion_dir
    config_dir,   \* sui start: the local config_dir
    swarm_builder,\* sui start: the local swarm_builder
    log,          \* sui start, sui genesis: what the command has built, started and written, in order
    result,       \* sui start, sui genesis: the Result returned, None while the command runs
    tempdirs,     \* sui start: the number of temporary directories made
    unhealthy_cnt,\* sui start: the local unhealthy_cnt
    genesis_args, \* sui genesis: the arguments of genesis
    directory,    \* the Sui config directory: its entries and what they hold
    host_port,    \* parse_host_port: the input, the value of a HOST_PORT flag
    default_port, \* parse_host_port: default_port_if_missing
    socket_addr   \* parse_host_port: the Result returned, None before the call

typeVars == <<v, pc, kind, with_prefix, text, parsed, size, addrs, other, ord, json>>
startVars == <<start_args, file_system, at, with_indexer, data_ingestion_dir, config_dir,
               swarm_builder, log, result, tempdirs, unhealthy_cnt>>
genesisVars == <<genesis_args, directory>>
hostVars == <<host_port, default_port, socket_addr>>
vars == <<typeVars, startVars, genesisVars, hostVars>>

(***************************************************************************)
(* Bounds of the model.                                                    *)
(***************************************************************************)
\* A value under study has at most this many TypeTag nodes.
MaxNodes == 3

(***************************************************************************)
(* Characters.                                                             *)
(***************************************************************************)
\* The characters in use, in increasing order of their ASCII code.
CharOrder ==
    << ",", "0", "1", "2", "3", "4", "5", "6", "7", "8", "9", ":", "<", ">",
       "A", "B", "C", "D", "E", "F", "G", "H", "I", "J", "K", "L", "M", "N",
       "O", "P", "Q", "R", "S", "T", "U", "V", "W", "X", "Y", "Z", "_",
       "a", "b", "c", "d", "e", "f", "g", "h", "i", "j", "k", "l", "m", "n",
       "o", "p", "q", "r", "s", "t", "u", "v", "w", "x", "y", "z" >>

CharCode(c) == CHOOSE i \in 1..Len(CharOrder) : CharOrder[i] = c

HexDigits == << "0", "1", "2", "3", "4", "5", "6", "7", "8", "9",
                "a", "b", "c", "d", "e", "f" >>

Range(f) == { f[i] : i \in DOMAIN f }

(***************************************************************************)
(* AccountAddress.                                                         *)
(***************************************************************************)
\* AccountAddress::LENGTH, the number of bytes of an address.
LENGTH == 32

\* The address whose first byte is hi and whose last byte is lo.
AddressOf(hi, lo) ==
    [i \in 1..LENGTH |-> IF i = 1 THEN hi ELSE IF i = LENGTH THEN lo ELSE 0]

\* AccountAddress::ONE
ONE == AddressOf(0, 1)

\* AccountAddress::to_canonical_display: every byte as two lowercase hex
\* digits, behind "0x" when with_prefix.
AccountAddress_to_canonical_display(a, wp) ==
    (IF wp THEN <<"0", "x">> ELSE <<>>)
    \o [i \in 1..(2 * LENGTH) |->
          IF i % 2 = 1 THEN HexDigits[(a[(i + 1) \div 2] \div 16) + 1]
                       ELSE HexDigits[(a[i \div 2] % 16) + 1]]

\* AccountAddress::short_str_lossless: the hex digits without the leading
\* zeros, "0" for the zero address.
AccountAddress_short_str_lossless(a) ==
    LET full == AccountAddress_to_canonical_display(a, FALSE)
        nonzero == { i \in 1..Len(full) : full[i] # "0" }
    IN  IF nonzero = {} THEN <<"0">>
        ELSE SubSeq(full, CHOOSE i \in nonzero : \A k \in nonzero : i <= k, Len(full))

(***************************************************************************)
(* TypeTag, StructTag, ModuleId.                                           *)
(***************************************************************************)
\* The variants of TypeTag that carry no payload, as declared.
Primitives ==
    {"Bool", "U8", "U64", "U128", "Address", "Signer", "U16", "U32", "U256"}

Prim(t) == [tag |-> t]
Vector(t) == [tag |-> "Vector", inner |-> t]
Struct(s) == [tag |-> "Struct", s |-> s]

StructTag(a, m, n, ps) ==
    [address |-> a, module |-> m, name |-> n, type_params |-> ps]

\* ModuleId::new
ModuleId(a, n) == [address |-> a, name |-> n]

\* StructTag::module_id
module_id(s) == ModuleId(s.address, s.module)

(***************************************************************************)
(* Canonical rendering.                                                    *)
(***************************************************************************)
RECURSIVE TypeTag_to_canonical_display(_, _)
RECURSIVE StructTag_to_canonical_display(_, _)
RECURSIVE CanonicalTail(_, _, _)

\* CanonicalTail with the loop over the remaining type arguments left out.
CanonicalTail_first_only(ps, i, wp) == <<>>

\* The loop of StructTag's CanonicalDisplay over type_params.iter().skip(1),
\* from position i on: "," and the type, with no space.
CanonicalTail(ps, i, wp) ==
    IF i > Len(ps) THEN <<>>
    ELSE <<",">> \o TypeTag_to_canonical_display(ps[i], wp)
                 \o CanonicalTail(ps, i + 1, wp)

\* StructTag_to_canonical_display with Display's separator, a comma and a space.
StructTag_to_canonical_display_spaced(s, wp) ==
    AccountAddress_to_canonical_display(s.address, wp)
    \o <<":", ":">> \o s.module \o <<":", ":">> \o s.name
    \o (IF Len(s.type_params) > 0
        THEN <<"<">>
             \o TypeTag_to_canonical_display(s.type_params[1], wp)
             \o (IF Len(s.type_params) > 1
                 THEN <<",", " ">> \o SubSeq(CanonicalTail(s.type_params, 2, wp), 2,
                                             Len(CanonicalTail(s.type_params, 2, wp)))
                 ELSE <<>>)
             \o <<">">>
        ELSE <<>>)

StructTag_to_canonical_display(s, wp) ==
    AccountAddress_to_canonical_display(s.address, wp)
    \o <<":", ":">> \o s.module \o <<":", ":">> \o s.name
    \o (IF Len(s.type_params) > 0
        THEN <<"<">>
             \o TypeTag_to_canonical_display(s.type_params[1], wp)
             \o CanonicalTail(s.type_params, 2, wp)
             \o <<">">>
        ELSE <<>>)

\* TypeTag_to_canonical_display with the flag of a vector's element fixed to true.
TypeTag_to_canonical_display_fixed_flag(t, wp) ==
    CASE t.tag = "Bool"    -> <<"b", "o", "o", "l">>
      [] t.tag = "U8"      -> <<"u", "8">>
      [] t.tag = "U16"     -> <<"u", "1", "6">>
      [] t.tag = "U32"     -> <<"u", "3", "2">>
      [] t.tag = "U64"     -> <<"u", "6", "4">>
      [] t.tag = "U128"    -> <<"u", "1", "2", "8">>
      [] t.tag = "U256"    -> <<"u", "2", "5", "6">>
      [] t.tag = "Address" -> <<"a", "d", "d", "r", "e", "s", "s">>
      [] t.tag = "Signer"  -> <<"s", "i", "g", "n", "e", "r">>
      [] t.tag = "Vector"  ->
             <<"v", "e", "c", "t", "o", "r", "<">>
             \o TypeTag_to_canonical_display(t.inner, TRUE) \o <<">">>
      [] t.tag = "Struct"  -> StructTag_to_canonical_display(t.s, wp)

TypeTag_to_canonical_display(t, wp) ==
    CASE t.tag = "Bool"    -> <<"b", "o", "o", "l">>
      [] t.tag = "U8"      -> <<"u", "8">>
      [] t.tag = "U16"     -> <<"u", "1", "6">>
      [] t.tag = "U32"     -> <<"u", "3", "2">>
      [] t.tag = "U64"     -> <<"u", "6", "4">>
      [] t.tag = "U128"    -> <<"u", "1", "2", "8">>
      [] t.tag = "U256"    -> <<"u", "2", "5", "6">>
      [] t.tag = "Address" -> <<"a", "d", "d", "r", "e", "s", "s">>
      [] t.tag = "Signer"  -> <<"s", "i", "g", "n", "e", "r">>
      [] t.tag = "Vector"  ->
             <<"v", "e", "c", "t", "o", "r", "<">>
             \o TypeTag_to_canonical_display(t.inner, wp) \o <<">">>
      [] t.tag = "Struct"  -> StructTag_to_canonical_display(t.s, wp)

\* ModuleId::short_str_lossless
ModuleId_short_str_lossless(id) ==
    <<"0", "x">> \o AccountAddress_short_str_lossless(id.address)
    \o <<":", ":">> \o id.name

\* ModuleId_to_canonical_display with the short address of short_str_lossless.
ModuleId_to_canonical_display_short(id, wp) == ModuleId_short_str_lossless(id)

ModuleId_to_canonical_display(id, wp) ==
    AccountAddress_to_canonical_display(id.address, wp)
    \o <<":", ":">> \o id.name

(***************************************************************************)
(* Display: the fmt of TypeTag, StructTag and ModuleId.                    *)
(***************************************************************************)
RECURSIVE TypeTag_fmt(_)
RECURSIVE StructTag_fmt(_)
RECURSIVE FmtTail(_, _)

\* for ty in type_params.iter().skip(1) { write!(f, ", {}", ty) }, from element i on
FmtTail(ps, i) ==
    IF i > Len(ps) THEN <<>>
    ELSE <<",", " ">> \o TypeTag_fmt(ps[i]) \o FmtTail(ps, i + 1)

\* Display of StructTag written as the canonical form without the prefix.
StructTag_fmt_canonical(s) == StructTag_to_canonical_display(s, FALSE)

\* impl Display for StructTag
StructTag_fmt(s) ==
    <<"0", "x">> \o AccountAddress_short_str_lossless(s.address)
    \o <<":", ":">> \o s.module \o <<":", ":">> \o s.name
    \o (IF s.type_params # <<>>
        THEN <<"<">> \o TypeTag_fmt(s.type_params[1])
             \o FmtTail(s.type_params, 2) \o <<">">>
        ELSE <<>>)

\* impl Display for TypeTag
TypeTag_fmt(t) ==
    CASE t.tag = "Struct"  -> StructTag_fmt(t.s)
      [] t.tag = "Vector"  -> <<"v", "e", "c", "t", "o", "r", "<">>
                              \o TypeTag_fmt(t.inner) \o <<">">>
      [] t.tag = "U8"      -> <<"u", "8">>
      [] t.tag = "U16"     -> <<"u", "1", "6">>
      [] t.tag = "U32"     -> <<"u", "3", "2">>
      [] t.tag = "U64"     -> <<"u", "6", "4">>
      [] t.tag = "U128"    -> <<"u", "1", "2", "8">>
      [] t.tag = "U256"    -> <<"u", "2", "5", "6">>
      [] t.tag = "Address" -> <<"a", "d", "d", "r", "e", "s", "s">>
      [] t.tag = "Signer"  -> <<"s", "i", "g", "n", "e", "r">>
      [] t.tag = "Bool"    -> <<"b", "o", "o", "l">>

\* Display of ModuleId written as short_str_lossless.
ModuleId_fmt_short(id) == ModuleId_short_str_lossless(id)

\* impl Display for ModuleId
ModuleId_fmt(id) == ModuleId_to_canonical_display(id, FALSE)

(***************************************************************************)
(* The grammar parser (parsing::types, parsing::parser).                   *)
(*   TypeTag    := Primitive | "vector" "<" TypeTag ">" | StructTag        *)
(*   StructTag  := AddressLit "::" Ident "::" Ident                        *)
(*                 [ "<" TypeTag ("," TypeTag)* ">" ]                      *)
(*   ModuleId   := AddressLit "::" Ident                                   *)
(*   AddressLit := ["0x"] HexDigits | NamedAddress                         *)
(* A result is [ok |-> TRUE, val, pos] (pos: the next unread position) or  *)
(* [ok |-> FALSE, err].                                                    *)
(***************************************************************************)
DecDigitChars == {"0", "1", "2", "3", "4", "5", "6", "7", "8", "9"}
HexDigitChars == DecDigitChars \cup {"a", "b", "c", "d", "e", "f"}
                               \cup {"A", "B", "C", "D", "E", "F"}
LetterChars == Range(CharOrder) \ (DecDigitChars \cup {",", ":", "<", ">", "_"})
WordChars == LetterChars \cup DecDigitChars \cup {"_"}

Ok(val, pos) == [ok |-> TRUE, val |-> val, pos |-> pos]
Err(e) == [ok |-> FALSE, err |-> e]

\* The character of s at position i; "" past the end.
At(s, i) == IF i \in 1..Len(s) THEN s[i] ELSE ""

RECURSIVE WordEnd(_, _)
\* The position after the longest run of word characters of s from i.
WordEnd(s, i) == IF At(s, i) \in WordChars THEN WordEnd(s, i + 1) ELSE i

\* The value of a hex digit, either case.
HexValue(c) ==
    IF c \in DecDigitChars THEN CharCode(c) - CharCode("0")
    ELSE IF c \in {"a", "b", "c", "d", "e", "f"} THEN 10 + CharCode(c) - CharCode("a")
    ELSE 10 + CharCode(c) - CharCode("A")

\* The address written by at most 2 * LENGTH hex digits, zero-padded on the left.
AddressFromHex(d) ==
    LET pad == 2 * LENGTH - Len(d)
        nib(i) == IF i <= pad THEN 0 ELSE HexValue(d[i - pad])
    IN  [k \in 1..LENGTH |-> 16 * nib(2 * k - 1) + nib(2 * k)]

\* Identifier::is_valid
IsValidIdentifier(w) ==
    /\ Len(w) > 0
    /\ \A i \in 1..Len(w) : w[i] \in WordChars
    /\ \/ w[1] \in LetterChars
       \/ w[1] = "_" /\ Len(w) > 1

\* AddressLit: a numerical address, or a named address left to the resolver.
ParseAddressLit(w) ==
    LET prefixed == Len(w) >= 2 /\ w[1] = "0" /\ w[2] = "x"
        digits == IF prefixed THEN SubSeq(w, 3, Len(w)) ELSE w
        isHex == /\ Len(digits) \in 1..(2 * LENGTH)
                 /\ \A i \in 1..Len(digits) : digits[i] \in HexDigitChars
    IN  IF isHex THEN [ok |-> TRUE, val |-> [numerical |-> AddressFromHex(digits)]]
        ELSE IF ~prefixed /\ IsValidIdentifier(w)
             THEN [ok |-> TRUE, val |-> [named |-> w]]
        ELSE Err("malformed-address")

PrimitiveKeyword(w) ==
    CASE w = <<"b", "o", "o", "l">>                -> "Bool"
      [] w = <<"u", "8">>                          -> "U8"
      [] w = <<"u", "1", "6">>                     -> "U16"
      [] w = <<"u", "3", "2">>                     -> "U32"
      [] w = <<"u", "6", "4">>                     -> "U64"
      [] w = <<"u", "1", "2", "8">>                -> "U128"
      [] w = <<"u", "2", "5", "6">>                -> "U256"
      [] w = <<"a", "d", "d", "r", "e", "s", "s">> -> "Address"
      [] w = <<"s", "i", "g", "n", "e", "r">>      -> "Signer"
      [] OTHER                                     -> ""

\* AddressLit "::" Ident from position i: Ok(ModuleId, pos)
ParseModuleAt(s, i) ==
    LET j == WordEnd(s, i)
        a == ParseAddressLit(SubSeq(s, i, j - 1))
        k == WordEnd(s, j + 2)
        name == SubSeq(s, j + 2, k - 1)
    IN  IF j = i THEN Err("unexpected-token")
        ELSE IF ~a.ok THEN a
        ELSE IF ~(At(s, j) = ":" /\ At(s, j + 1) = ":") THEN Err("unexpected-token")
        ELSE IF ~IsValidIdentifier(name) THEN Err("invalid-identifier")
        ELSE Ok(ModuleId(a.val, name), k)

RECURSIVE ParseTypeAt(_, _)
RECURSIVE ParseStructAt(_, _)
RECURSIVE ParseTypeArgsAt(_, _)

\* TypeTag ("," TypeTag)* from position i: Ok(sequence of types, pos)
ParseTypeArgsAt(s, i) ==
    LET first == ParseTypeAt(s, i)
    IN  IF ~first.ok THEN first
        ELSE IF At(s, first.pos) = ","
             THEN LET rest == ParseTypeArgsAt(s, first.pos + 1)
                  IN  IF ~rest.ok THEN rest
                      ELSE Ok(<<first.val>> \o rest.val, rest.pos)
        ELSE Ok(<<first.val>>, first.pos)

ParseStructAt(s, i) ==
    LET m == ParseModuleAt(s, i)
    IN  IF ~m.ok THEN m
        ELSE LET k == WordEnd(s, m.pos + 2)
                 name == SubSeq(s, m.pos + 2, k - 1)
             IN  IF ~(At(s, m.pos) = ":" /\ At(s, m.pos + 1) = ":")
                 THEN Err("unexpected-token")
                 ELSE IF ~IsValidIdentifier(name) THEN Err("invalid-identifier")
                 ELSE IF At(s, k) = "<"
                      THEN LET args == ParseTypeArgsAt(s, k + 1)
                           IN  IF ~args.ok THEN args
                               ELSE IF At(s, args.pos) # ">"
                                    THEN Err("unbalanced-generics")
                               ELSE Ok(StructTag(m.val.address, m.val.name,
                                                 name, args.val),
                                       args.pos + 1)
                 ELSE Ok(StructTag(m.val.address, m.val.name, name, <<>>), k)

ParseTypeAt(s, i) ==
    LET j == WordEnd(s, i)
        w == SubSeq(s, i, j - 1)
    IN  IF w = <<"v", "e", "c", "t", "o", "r">> /\ At(s, j) = "<"
        THEN LET r == ParseTypeAt(s, j + 1)
             IN  IF ~r.ok THEN r
                 ELSE IF At(s, r.pos) # ">" THEN Err("unbalanced-generics")
                 ELSE Ok(Vector(r.val), r.pos + 1)
        ELSE IF PrimitiveKeyword(w) # "" /\ At(s, j) # ":"
             THEN Ok(Prim(PrimitiveKeyword(w)), j)
        ELSE LET r == ParseStructAt(s, i)
             IN  IF ~r.ok THEN r ELSE Ok(Struct(r.val), r.pos)

\* A parse must consume the whole input.
WholeInput(s, r) ==
    IF ~r.ok THEN r
    ELSE IF r.pos # Len(s) + 1
         THEN Err(IF At(s, r.pos) = ">" THEN "unbalanced-generics"
                                        ELSE "unexpected-token")
    ELSE [ok |-> TRUE, val |-> r.val]

ParsedType_parse(s) == WholeInput(s, ParseTypeAt(s, 1))
ParsedStructType_parse(s) == WholeInput(s, ParseStructAt(s, 1))
ParsedModuleId_parse(s) == WholeInput(s, ParseModuleAt(s, 1))

\* The address-resolution hook FromStr passes: |_| None.
NoNamedAddresses(name) == [none |-> TRUE]

\* ParsedAddress::into_account_address with that hook: [ok, val] or the error.
IntoAccountAddress(a) ==
    IF "numerical" \in DOMAIN a THEN [ok |-> TRUE, val |-> a.numerical]
    ELSE IF "none" \in DOMAIN NoNamedAddresses(a.named) THEN Err("unresolved-named-address")
    ELSE [ok |-> TRUE, val |-> NoNamedAddresses(a.named)]

RECURSIVE into_type_tag(_)
RECURSIVE into_struct_tag(_)
RECURSIVE into_type_tags(_, _)

\* The type arguments from position i on, converted in order.
into_type_tags(ps, i) ==
    IF i > Len(ps) THEN [ok |-> TRUE, val |-> <<>>]
    ELSE LET h == into_type_tag(ps[i])
         IN  IF ~h.ok THEN h
             ELSE LET r == into_type_tags(ps, i + 1)
                  IN  IF ~r.ok THEN r
                      ELSE [ok |-> TRUE, val |-> <<h.val>> \o r.val]

into_struct_tag(p) ==
    LET a == IntoAccountAddress(p.address)
    IN  IF ~a.ok THEN a
        ELSE LET ps == into_type_tags(p.type_params, 1)
             IN  IF ~ps.ok THEN ps
                 ELSE [ok |-> TRUE,
                       val |-> StructTag(a.val, p.module, p.name, ps.val)]

into_type_tag(p) ==
    IF p.tag = "Vector"
    THEN LET r == into_type_tag(p.inner)
         IN  IF ~r.ok THEN r ELSE [ok |-> TRUE, val |-> Vector(r.val)]
    ELSE IF p.tag = "Struct"
         THEN LET r == into_struct_tag(p.s)
              IN  IF ~r.ok THEN r ELSE [ok |-> TRUE, val |-> Struct(r.val)]
    ELSE [ok |-> TRUE, val |-> p]

into_module_id(p) ==
    LET a == IntoAccountAddress(p.address)
    IN  IF ~a.ok THEN a ELSE [ok |-> TRUE, val |-> ModuleId(a.val, p.name)]

\* from_str that falls back to a value when the parser fails.
TypeTag_from_str_or_default(s) ==
    LET p == ParsedType_parse(s)
    IN  IF ~p.ok THEN [ok |-> TRUE, val |-> Prim("Bool")] ELSE into_type_tag(p.val)

\* impl FromStr for TypeTag
TypeTag_from_str(s) ==
    LET p == ParsedType_parse(s)
    IN  IF ~p.ok THEN p ELSE into_type_tag(p.val)

\* impl FromStr for StructTag
StructTag_from_str(s) ==
    LET p == ParsedStructType_parse(s)
    IN  IF ~p.ok THEN p ELSE into_struct_tag(p.val)

\* impl FromStr for ModuleId
ModuleId_from_str(s) ==
    LET p == ParsedModuleId_parse(s)
    IN  IF ~p.ok THEN p ELSE into_module_id(p.val)

(***************************************************************************)
(* Ordering and equality: #[derive(PartialEq, Eq, PartialOrd, Ord)].       *)
(* An Ordering is "Less", "Equal" or "Greater".                            *)
(***************************************************************************)
\* Ord for integers (discriminants, bytes, character codes).
IntCmp(a, b) == IF a < b THEN "Less" ELSE IF a > b THEN "Greater" ELSE "Equal"

\* Ordering::then: the first ordering unless it is Equal.
Then(o1, o2) == IF o1 # "Equal" THEN o1 ELSE o2

\* Ord for AccountAddress, that of [u8; LENGTH]: the first byte that differs decides.
AccountAddress_cmp(a, b) ==
    LET diff == { i \in 1..LENGTH : a[i] # b[i] }
    IN  IF diff = {} THEN "Equal"
        ELSE LET i == CHOOSE j \in diff : \A k \in diff : j <= k
             IN  IntCmp(a[i], b[i])

RECURSIVE StrCmpFrom(_, _, _)
\* Ord for str from character i on: lexicographic by bytes, a prefix first.
StrCmpFrom(a, b, i) ==
    IF i > Len(a) \/ i > Len(b) THEN IntCmp(Len(a), Len(b))
    ELSE Then(IntCmp(CharCode(a[i]), CharCode(b[i])), StrCmpFrom(a, b, i + 1))

\* Ord for Identifier
Identifier_cmp(a, b) == StrCmpFrom(a, b, 1)

\* VariantIndex with the integer variants declared by increasing width.
VariantIndex_by_width(tag) ==
    CASE tag = "Bool"    -> 0
      [] tag = "U8"      -> 1
      [] tag = "U16"     -> 2
      [] tag = "U32"     -> 3
      [] tag = "U64"     -> 4
      [] tag = "U128"    -> 5
      [] tag = "U256"    -> 6
      [] tag = "Address" -> 7
      [] tag = "Signer"  -> 8
      [] tag = "Vector"  -> 9
      [] tag = "Struct"  -> 10

\* The discriminant of each variant: its position in the declaration of TypeTag.
VariantIndex(tag) ==
    CASE tag = "Bool"    -> 0
      [] tag = "U8"      -> 1
      [] tag = "U64"     -> 2
      [] tag = "U128"    -> 3
      [] tag = "Address" -> 4
      [] tag = "Signer"  -> 5
      [] tag = "Vector"  -> 6
      [] tag = "Struct"  -> 7
      [] tag = "U16"     -> 8
      [] tag = "U32"     -> 9
      [] tag = "U256"    -> 10

RECURSIVE TypeTag_cmp(_, _)
RECURSIVE StructTag_cmp(_, _)
RECURSIVE TypeParamsCmpFrom(_, _, _)

\* TypeParamsCmpFrom that stops at the end of the shorter sequence.
TypeParamsCmpFrom_zipped(ps, qs, i) ==
    IF i > Len(ps) \/ i > Len(qs) THEN "Equal"
    ELSE Then(TypeTag_cmp(ps[i], qs[i]), TypeParamsCmpFrom(ps, qs, i + 1))

\* Ord for Vec<TypeTag> from element i on: lexicographic, a prefix first.
TypeParamsCmpFrom(ps, qs, i) ==
    IF i > Len(ps) \/ i > Len(qs) THEN IntCmp(Len(ps), Len(qs))
    ELSE Then(TypeTag_cmp(ps[i], qs[i]), TypeParamsCmpFrom(ps, qs, i + 1))

\* StructTag_cmp with the name compared before the module.
StructTag_cmp_name_first(s, t) ==
    Then(AccountAddress_cmp(s.address, t.address),
    Then(Identifier_cmp(s.name, t.name),
    Then(Identifier_cmp(s.module, t.module),
         TypeParamsCmpFrom(s.type_params, t.type_params, 1))))

\* Ord for StructTag: the fields in the order they are declared.
StructTag_cmp(s, t) ==
    Then(AccountAddress_cmp(s.address, t.address),
    Then(Identifier_cmp(s.module, t.module),
    Then(Identifier_cmp(s.name, t.name),
         TypeParamsCmpFrom(s.type_params, t.type_params, 1))))

\* Ord for TypeTag: the discriminants, then the payloads of one variant.
TypeTag_cmp(a, b) ==
    IF VariantIndex(a.tag) # VariantIndex(b.tag)
    THEN IntCmp(VariantIndex(a.tag), VariantIndex(b.tag))
    ELSE CASE a.tag = "Vector" -> TypeTag_cmp(a.inner, b.inner)
           [] a.tag = "Struct" -> StructTag_cmp(a.s, b.s)
           [] OTHER            -> "Equal"

\* Ord for ModuleId: the fields in the order they are declared.
ModuleId_cmp(a, b) ==
    Then(AccountAddress_cmp(a.address, b.address), Identifier_cmp(a.name, b.name))

RECURSIVE TypeTag_eq(_, _)
RECURSIVE TypeParamsEqFrom(_, _, _)

\* PartialEq for the elements of Vec<TypeTag> from element i on.
TypeParamsEqFrom(ps, qs, i) ==
    i > Len(ps) \/ (TypeTag_eq(ps[i], qs[i]) /\ TypeParamsEqFrom(ps, qs, i + 1))

\* PartialEq for StructTag: every field.
StructTag_eq(s, t) ==
    /\ s.address = t.address
    /\ s.module = t.module
    /\ s.name = t.name
    /\ Len(s.type_params) = Len(t.type_params)
    /\ TypeParamsEqFrom(s.type_params, t.type_params, 1)

\* PartialEq for TypeTag: the same variant with equal payloads.
TypeTag_eq(a, b) ==
    /\ a.tag = b.tag
    /\ CASE a.tag = "Vector" -> TypeTag_eq(a.inner, b.inner)
         [] a.tag = "Struct" -> StructTag_eq(a.s, b.s)
         [] OTHER            -> TRUE

\* PartialEq for ModuleId
ModuleId_eq(a, b) == a.address = b.address /\ a.name = b.name

(***************************************************************************)
(* The abstract size used for gas metering.  An AbstractMemorySize is a    *)
(* u64; the sizes of the values a machine can hold stay far below 2^64.    *)
(***************************************************************************)
\* gas_algebra::ENUM_BASE_ABSTRACT_SIZE
ENUM_BASE_ABSTRACT_SIZE == 8

\* gas_algebra::BOX_ABSTRACT_SIZE
BOX_ABSTRACT_SIZE == 8

TYPETAG_ENUM_ABSTRACT_SIZE == ENUM_BASE_ABSTRACT_SIZE + BOX_ABSTRACT_SIZE

\* AccountAddress::abstract_size_for_gas_metering: the number of its bytes.
AccountAddress_abstract_size_for_gas_metering(a) == LENGTH

\* Identifier::abstract_size_for_gas_metering: the number of its bytes.
Identifier_abstract_size_for_gas_metering(id) == Len(id)

RECURSIVE TypeTag_abstract_size_for_gas_metering(_)
RECURSIVE StructTag_abstract_size_for_gas_metering(_)
RECURSIVE FoldSizes(_, _, _)

\* type_params.iter().fold(accum, |accum, val| accum + val.size()), from element i on.
FoldSizes(ps, i, accum) ==
    IF i > Len(ps) THEN accum
    ELSE FoldSizes(ps, i + 1, accum + TypeTag_abstract_size_for_gas_metering(ps[i]))

\* StructTag_abstract_size_for_gas_metering with the name left out.
StructTag_abstract_size_without_name(s) ==
    AccountAddress_abstract_size_for_gas_metering(s.address)
    + Identifier_abstract_size_for_gas_metering(s.module)
    + FoldSizes(s.type_params, 1, 0)

StructTag_abstract_size_for_gas_metering(s) ==
    AccountAddress_abstract_size_for_gas_metering(s.address)
    + Identifier_abstract_size_for_gas_metering(s.module)
    + Identifier_abstract_size_for_gas_metering(s.name)
    + FoldSizes(s.type_params, 1, 0)

\* TypeTag_abstract_size_for_gas_metering with Vector counted like a primitive.
TypeTag_abstract_size_flat_vector(t) ==
    TYPETAG_ENUM_ABSTRACT_SIZE
    + CASE t.tag \in Primitives -> 0
        [] t.tag = "Vector" -> 0
        [] t.tag = "Struct" -> StructTag_abstract_size_for_gas_metering(t.s)

TypeTag_abstract_size_for_gas_metering(t) ==
    TYPETAG_ENUM_ABSTRACT_SIZE
    + CASE t.tag \in Primitives -> 0
        [] t.tag = "Vector" -> TypeTag_abstract_size_for_gas_metering(t.inner)
        [] t.tag = "Struct" -> StructTag_abstract_size_for_gas_metering(t.s)

(***************************************************************************)
(* The addresses used inside a type.  An IndexSet is the sequence of its   *)
(* elements in insertion order.                                            *)
(***************************************************************************)
\* IndexSet::insert: at the end, unless the element is already there.
IndexSet_insert(set, a) == IF a \in Range(set) THEN set ELSE Append(set, a)

RECURSIVE find_addresses_internal(_, _)
RECURSIVE all_addresses_internal(_, _)
RECURSIVE FindInParams(_, _, _)

\* for tag in type_params { tag.find_addresses_internal(addrs) }, from element i on.
FindInParams(ps, i, account_addresses) ==
    IF i > Len(ps) THEN account_addresses
    ELSE FindInParams(ps, i + 1, find_addresses_internal(ps[i], account_addresses))

\* all_addresses_internal with the address added after the type parameters.
all_addresses_internal_post_order(s, account_addresses) ==
    IndexSet_insert(FindInParams(s.type_params, 1, account_addresses), s.address)

\* StructTag::all_addresses_internal: the set after the call.
all_addresses_internal(s, account_addresses) ==
    FindInParams(s.type_params, 1, IndexSet_insert(account_addresses, s.address))

\* find_addresses_internal that does not look inside a vector.
find_addresses_internal_skip_vector(t, account_addresses) ==
    CASE t.tag = "Struct" -> all_addresses_internal(t.s, account_addresses)
      [] OTHER            -> account_addresses

\* TypeTag::find_addresses_internal: the set after the call.
find_addresses_internal(t, account_addresses) ==
    CASE t.tag \in Primitives -> account_addresses
      [] t.tag = "Vector" -> find_addresses_internal(t.inner, account_addresses)
      [] t.tag = "Struct" -> all_addresses_internal(t.s, account_addresses)

\* TypeTag::all_addresses
TypeTag_all_addresses(t) == find_addresses_internal(t, <<>>)

\* StructTag::all_addresses
StructTag_all_addresses(s) == all_addresses_internal(s, <<>>)

(***************************************************************************)
(* Serde: #[derive(Serialize, Deserialize)] with the rename and alias      *)
(* attributes.  An encoding is a value of the serde data model:            *)
(* unit_variant(name), newtype_variant(name, value), struct(fields) with   *)
(* fields a sequence of <<key, value>>, seq(items) and str(characters).    *)
(* serde_json writes such a value as text and reads the text back as the   *)
(* same value.  A result is [ok |-> TRUE, val] or [ok |-> FALSE, err].     *)
(***************************************************************************)
\* The absent value of an Option.
None == [none |-> TRUE]

unit_variant(name) == [ser |-> "unit_variant", variant |-> name]
newtype_variant(name, value) == [ser |-> "newtype_variant", variant |-> name, value |-> value]
struct(fields) == [ser |-> "struct", fields |-> fields]
seq(items) == [ser |-> "seq", items |-> items]
str(s) == [ser |-> "str", s |-> s]

\* The variants of TypeTag, by the name they have in the enum.
Variants == Primitives \cup {"Vector", "Struct"}

\* The variant names as the enum declares them, without the rename.
VariantRename_declared(tag) == tag

\* #[serde(rename = ...)] of each variant
VariantRename(tag) ==
    CASE tag = "Bool"    -> "bool"
      [] tag = "U8"      -> "u8"
      [] tag = "U64"     -> "u64"
      [] tag = "U128"    -> "u128"
      [] tag = "Address" -> "address"
      [] tag = "Signer"  -> "signer"
      [] tag = "Vector"  -> "vector"
      [] tag = "Struct"  -> "struct"
      [] tag = "U16"     -> "u16"
      [] tag = "U32"     -> "u32"
      [] tag = "U256"    -> "u256"

\* #[serde(alias = ...)] of each variant
VariantAlias(tag) ==
    CASE tag = "Bool"    -> "Bool"
      [] tag = "U8"      -> "U8"
      [] tag = "U64"     -> "U64"
      [] tag = "U128"    -> "U128"
      [] tag = "Address" -> "Address"
      [] tag = "Signer"  -> "Signer"
      [] tag = "Vector"  -> "Vector"
      [] tag = "Struct"  -> "Struct"
      [] tag = "U16"     -> "U16"
      [] tag = "U32"     -> "U32"
      [] tag = "U256"    -> "U256"

\* The variant matcher that knows the renamed names only.
VariantOfName_no_alias(name) ==
    IF \E tag \in Variants : name = VariantRename(tag)
    THEN CHOOSE tag \in Variants : name = VariantRename(tag)
    ELSE ""

\* The variant a name read from the input selects, "" for an unknown variant.
VariantOfName(name) ==
    IF \E tag \in Variants : name \in {VariantRename(tag), VariantAlias(tag)}
    THEN CHOOSE tag \in Variants : name \in {VariantRename(tag), VariantAlias(tag)}
    ELSE ""

\* The field matcher that knows the renamed names only.
FieldOfKey_no_alias(key) ==
    CASE key = "address"   -> "address"
      [] key = "module"    -> "module"
      [] key = "name"      -> "name"
      [] key = "type_args" -> "type_params"
      [] OTHER             -> ""

\* The field of StructTag a key read from the input selects, "" for a key
\* that is ignored.
FieldOfKey(key) ==
    CASE key = "address"                     -> "address"
      [] key = "module"                      -> "module"
      [] key = "name"                        -> "name"
      [] key \in {"type_args", "type_params"} -> "type_params"
      [] OTHER                               -> ""

\* AccountAddress as serde writes it for a readable format: its hex digits.
AccountAddress_serialize(a) == str(AccountAddress_to_canonical_display(a, FALSE))

AccountAddress_deserialize(d) ==
    IF d.ser # "str" THEN Err("invalid type")
    ELSE LET a == ParseAddressLit(d.s)
         IN  IF a.ok /\ "numerical" \in DOMAIN a.val
             THEN [ok |-> TRUE, val |-> a.val.numerical]
             ELSE Err("invalid address")

\* Identifier: the string, validated when read.
Identifier_serialize(id) == str(id)

Identifier_deserialize(d) ==
    IF d.ser # "str" THEN Err("invalid type")
    ELSE IF ~IsValidIdentifier(d.s) THEN Err("invalid identifier")
    ELSE [ok |-> TRUE, val |-> d.s]

RECURSIVE TypeTag_serialize(_)
RECURSIVE StructTag_serialize(_)
RECURSIVE SerializeSeq(_, _)

\* Vec<TypeTag>::serialize from element i on
SerializeSeq(ps, i) ==
    IF i > Len(ps) THEN <<>>
    ELSE <<TypeTag_serialize(ps[i])>> \o SerializeSeq(ps, i + 1)

\* StructTag::serialize
StructTag_serialize(s) ==
    struct(<< <<"address", AccountAddress_serialize(s.address)>>,
              <<"module", Identifier_serialize(s.module)>>,
              <<"name", Identifier_serialize(s.name)>>,
              <<"type_args", seq(SerializeSeq(s.type_params, 1))>> >>)

\* TypeTag::serialize
TypeTag_serialize(t) ==
    CASE t.tag \in Primitives -> unit_variant(VariantRename(t.tag))
      [] t.tag = "Vector" ->
            newtype_variant(VariantRename(t.tag), TypeTag_serialize(t.inner))
      [] t.tag = "Struct" ->
            newtype_variant(VariantRename(t.tag), StructTag_serialize(t.s))

RECURSIVE TypeTag_deserialize(_)
RECURSIVE StructTag_deserialize(_)
RECURSIVE StructTag_visit_map(_, _, _)
RECURSIVE DeserializeSeq(_, _)

\* Vec<TypeTag>::deserialize from element i on
DeserializeSeq(items, i) ==
    IF i > Len(items) THEN [ok |-> TRUE, val |-> <<>>]
    ELSE LET h == TypeTag_deserialize(items[i])
         IN  IF ~h.ok THEN h
             ELSE LET r == DeserializeSeq(items, i + 1)
                  IN  IF ~r.ok THEN r
                      ELSE [ok |-> TRUE, val |-> <<h.val>> \o r.val]

\* The derived visitor of StructTag over the entries from i on; got holds
\* the fields read so far, None for a field not read yet.
StructTag_visit_map(entries, i, got) ==
    IF i > Len(entries)
    THEN IF \E f \in DOMAIN got : got[f] = None THEN Err("missing field")
         ELSE [ok |-> TRUE,
               val |-> StructTag(got.address.some, got.module.some,
                                 got.name.some, got.type_params.some)]
    ELSE LET f == FieldOfKey(entries[i][1])
             d == entries[i][2]
             r == CASE f = "address" -> AccountAddress_deserialize(d)
                    [] f \in {"module", "name"} -> Identifier_deserialize(d)
                    [] f = "type_params" ->
                          IF d.ser = "seq" THEN DeserializeSeq(d.items, 1)
                          ELSE Err("invalid type")
         IN  IF f = "" THEN StructTag_visit_map(entries, i + 1, got)
             ELSE IF got[f] # None THEN Err("duplicate field")
             ELSE IF ~r.ok THEN r
             ELSE StructTag_visit_map(entries, i + 1,
                                      [got EXCEPT ![f] = [some |-> r.val]])

\* StructTag::deserialize
StructTag_deserialize(d) ==
    IF d.ser # "struct" THEN Err("invalid type")
    ELSE StructTag_visit_map(d.fields, 1,
                             [address |-> None, module |-> None,
                              name |-> None, type_params |-> None])

\* TypeTag::deserialize
TypeTag_deserialize(d) ==
    IF d.ser \notin {"unit_variant", "newtype_variant"} THEN Err("invalid type")
    ELSE LET tag == VariantOfName(d.variant)
         IN  IF tag = "" THEN Err("unknown variant")
             ELSE IF d.ser = "unit_variant"
                  THEN IF tag \in Primitives THEN [ok |-> TRUE, val |-> Prim(tag)]
                       ELSE Err("invalid type")
             ELSE IF tag = "Vector"
                  THEN LET r == TypeTag_deserialize(d.value)
                       IN  IF ~r.ok THEN r ELSE [ok |-> TRUE, val |-> Vector(r.val)]
             ELSE IF tag = "Struct"
                  THEN LET r == StructTag_deserialize(d.value)
                       IN  IF ~r.ok THEN r ELSE [ok |-> TRUE, val |-> Struct(r.val)]
             ELSE Err("invalid type")

(***************************************************************************)
(* sui start (crates/sui/src/sui_commands.rs): host and port arguments.    *)
(* A SocketAddr is [v4 |-> <<a, b, c, d>>, port |-> n] or                  *)
(* [v6 |-> text, port |-> n].                                              *)
(***************************************************************************)
DEFAULT_EPOCH_DURATION_MS == 60000
DEFAULT_FAUCET_PORT == 9123
DEFAULT_GRAPHQL_PORT == 9125
DEFAULT_INDEXER_PORT == 9124

\* The largest u16.
U16_MAX == 65535

\* str::contains
Contains(s, sub) ==
    \E i \in 1..(Len(s) - Len(sub) + 1) : SubSeq(s, i, i + Len(sub) - 1) = sub

RECURSIVE ReplaceFrom(_, _, _, _)
\* str::replace(from, to), from position i on
ReplaceFrom(s, from, to, i) ==
    IF i > Len(s) THEN <<>>
    ELSE IF i + Len(from) - 1 <= Len(s) /\ SubSeq(s, i, i + Len(from) - 1) = from
         THEN to \o ReplaceFrom(s, from, to, i + Len(from))
    ELSE <<s[i]>> \o ReplaceFrom(s, from, to, i + 1)

RECURSIVE ToDecimal(_)
\* A number as format!("{}") writes it.
ToDecimal(n) ==
    IF n < 10 THEN <<HexDigits[n + 1]>>
    ELSE ToDecimal(n \div 10) \o <<HexDigits[(n % 10) + 1]>>

RECURSIVE DecimalValue(_, _)
\* The value of the decimal digits of s up to position i.
DecimalValue(s, i) ==
    IF i = 0 THEN 0
    ELSE 10 * DecimalValue(s, i - 1) + (CHOOSE n \in 0..9 : HexDigits[n + 1] = s[i])

\* str::parse of an unsigned integer of at most max: [ok, val] or an error.
ParseDecimal(s, max) ==
    IF Len(s) = 0 \/ \E i \in 1..Len(s) : s[i] \notin DecDigitChars
    THEN Err("AddrParseError")
    ELSE IF DecimalValue(s, Len(s)) > max THEN Err("AddrParseError")
    ELSE [ok |-> TRUE, val |-> DecimalValue(s, Len(s))]

\* The positions of character c in s.
PositionsOf(s, c) == { i \in 1..Len(s) : s[i] = c }

\* Ipv4Addr::from_str: four decimal octets without leading zeros.
ParseIpv4(s) ==
    LET dots == PositionsOf(s, ".")
        cut == [k \in 0..4 |->
                  IF k = 0 THEN 0
                  ELSE IF k = 4 THEN Len(s) + 1
                  ELSE IF Cardinality(dots) = 3
                       THEN CHOOSE p \in dots : Cardinality({q \in dots : q < p}) = k - 1
                       ELSE 0]
        part(k) == SubSeq(s, cut[k - 1] + 1, cut[k] - 1)
        octet(k) == ParseDecimal(part(k), 255)
    IN  IF Cardinality(dots) # 3 THEN Err("AddrParseError")
        ELSE IF \E k \in 1..4 : \/ ~octet(k).ok
                                 \/ Len(part(k)) > 3
                                 \/ (Len(part(k)) > 1 /\ part(k)[1] = "0")
             THEN Err("AddrParseError")
        ELSE [ok |-> TRUE, val |-> [k \in 1..4 |-> octet(k).val]]

\* SocketAddr::from_str: "a.b.c.d:port" or "[v6]:port".
SocketAddr_parse(s) ==
    LET colons == PositionsOf(s, ":")
        last == CHOOSE p \in colons : \A q \in colons : q <= p
        port == ParseDecimal(SubSeq(s, last + 1, Len(s)), U16_MAX)
        host == SubSeq(s, 1, last - 1)
        ip == ParseIpv4(host)
        bracketed == /\ Len(host) >= 4 /\ host[1] = "[" /\ host[Len(host)] = "]"
                     /\ \A i \in 2..(Len(host) - 1) :
                           host[i] \in HexDigitChars \cup {":"}
                     /\ Contains(host, <<":", ":">>)
    IN  IF colons = {} THEN Err("AddrParseError")
        ELSE IF ~port.ok THEN port
        ELSE IF bracketed
             THEN [ok |-> TRUE,
                   val |-> [v6 |-> SubSeq(host, 2, Len(host) - 1), port |-> port.val]]
        ELSE IF ~ip.ok THEN ip
        ELSE [ok |-> TRUE, val |-> [v4 |-> ip.val, port |-> port.val]]

\* parse_host_port without the replacement of localhost.
parse_host_port_without_localhost(input, default_port_if_missing) ==
    LET default_host == <<"0", ".", "0", ".", "0", ".", "0">>
    IN  IF Contains(input, <<":">>) THEN SocketAddr_parse(input)
        ELSE IF Contains(input, <<".">>)
             THEN SocketAddr_parse(input \o <<":">> \o ToDecimal(default_port_if_missing))
        ELSE IF input = <<>>
             THEN SocketAddr_parse(default_host \o <<":">>
                                   \o ToDecimal(default_port_if_missing))
        ELSE SocketAddr_parse(default_host \o <<":">> \o input)

\* parse_host_port
parse_host_port(input, default_port_if_missing) ==
    LET default_host == <<"0", ".", "0", ".", "0", ".", "0">>
        localhost == <<"l", "o", "c", "a", "l", "h", "o", "s", "t">>
        input2 == IF Contains(input, localhost)
                  THEN ReplaceFrom(input, localhost,
                                   <<"1", "2", "7", ".", "0", ".", "0", ".", "1">>, 1)
                  ELSE input
    IN  IF Contains(input2, <<":">>) THEN SocketAddr_parse(input2)
        ELSE IF Contains(input2, <<".">>)
             THEN SocketAddr_parse(input2 \o <<":">> \o ToDecimal(default_port_if_missing))
        ELSE IF input2 = <<>>
             THEN SocketAddr_parse(default_host \o <<":">>
                                   \o ToDecimal(default_port_if_missing))
        ELSE IF input2 # <<>>
             THEN SocketAddr_parse(default_host \o <<":">> \o input2)
        ELSE SocketAddr_parse(default_host \o <<":">>
                              \o ToDecimal(default_port_if_missing))

(***************************************************************************)
(* sui start: the pieces of start(). An Option is None or Some(x).         *)
(***************************************************************************)
Some(x) == [some |-> x]
is_some(o) == "some" \in DOMAIN o
is_none(o) == "none" \in DOMAIN o

\* The port of the fullnode RPC server when --fullnode-rpc-port is not given.
DEFAULT_FULLNODE_RPC_PORT == 9000

\* The indexer as the flags give it, --with-graphql implying nothing.
EnabledIndexer_as_given(indexer, graphql) == indexer

\* if with_graphql.is_some() { with_indexer = Some(with_indexer.unwrap_or_default()) }
EnabledIndexer(indexer, graphql) ==
    IF is_some(graphql)
    THEN Some(IF is_some(indexer) THEN indexer.some ELSE <<>>)
    ELSE indexer

\* The checks at the head of start without the one on --epoch-duration-ms.
Validate_without_epoch_check(a, fsys) ==
    IF a.force_regenesis /\ is_some(a.config)
    THEN Err("Cannot pass '--force-regenesis' and '--network.config' at the same time.")
    ELSE IF is_some(EnabledIndexer(a.with_indexer, a.with_graphql)) /\ a.no_full_node
         THEN Err("Cannot start the indexer without a fullnode.")
    ELSE [ok |-> TRUE]

\* The checks at the head of start without the one on --no-full-node.
Validate_without_fullnode_check(a, fsys) ==
    IF a.force_regenesis /\ is_some(a.config)
    THEN Err("Cannot pass '--force-regenesis' and '--network.config' at the same time.")
    ELSE IF is_some(a.epoch_duration_ms) /\ fsys.genesis_blob /\ ~a.force_regenesis
         THEN Err("Epoch duration can only be set when passing the '--force-regenesis' flag, or when there is no genesis configuration in the default Sui configuration folder or the given network.config argument.")
    ELSE [ok |-> TRUE]

\* The checks at the head of start: the first that fails gives the error
\* (a message is the code's, with ' where the code's has a backquote).
Validate(a, fsys) ==
    IF a.force_regenesis /\ is_some(a.config)
    THEN Err("Cannot pass '--force-regenesis' and '--network.config' at the same time.")
    ELSE IF is_some(EnabledIndexer(a.with_indexer, a.with_graphql)) /\ a.no_full_node
         THEN Err("Cannot start the indexer without a fullnode.")
    ELSE IF is_some(a.epoch_duration_ms) /\ fsys.genesis_blob /\ ~a.force_regenesis
         THEN Err("Epoch duration can only be set when passing the '--force-regenesis' flag, or when there is no genesis configuration in the default Sui configuration folder or the given network.config argument.")
    ELSE [ok |-> TRUE]

\* mysten_common::tempdir()?.keep(): the n-th temporary directory made.
TempDir(n) == [tmp |-> n]

\* The data ingestion directory as the flag gives it.
IngestionDir_as_given(indexer, dir, fresh) == dir

\* if with_indexer.is_some() && data_ingestion_dir.is_none()
\*     { data_ingestion_dir = Some(tempdir) }
IngestionDir(indexer, dir, fresh) ==
    IF is_some(indexer) /\ is_none(dir) THEN Some(fresh) ELSE dir

\* The committee size as given, 1 when not given, zero included.
CommitteeSize_unchecked(committee_size) ==
    IF is_none(committee_size) THEN Some(1) ELSE committee_size

\* The committee size of a regenesis: NonZeroUsize::new(x), 1 when not given.
CommitteeSize(committee_size) ==
    IF is_none(committee_size) THEN Some(1)
    ELSE IF committee_size.some = 0 THEN None
    ELSE committee_size

\* Swarm::builder()
SwarmBuilder ==
    [committee_size |-> None, genesis_config |-> None, epoch_duration_ms |-> None,
     dir |-> None, network_config |-> None, data_ingestion_dir |-> None,
     fullnode_count |-> 0, fullnode_rpc_addr |-> None]

(***************************************************************************)
(* sui genesis.  A directory is a function from the names of its entries   *)
(* to what they hold; None is a directory that does not exist.             *)
(***************************************************************************)
SUI_CLIENT_CONFIG == "client.yaml"
SUI_KEYSTORE_FILENAME == "sui.keystore"
SUI_NETWORK_CONFIG == "network.yaml"
SUI_GENESIS_FILENAME == "genesis.blob"
SUI_FULLNODE_CONFIG == "fullnode.yaml"
SUI_BENCHMARK_GENESIS_GAS_KEYSTORE_FILENAME == "benchmark.keystore"

EmptyDir == [n \in {} |-> None]

\* fs::write(dir.join(name), holds)
Put(dir, name, holds) ==
    [n \in DOMAIN dir \cup {name} |-> IF n = name THEN holds ELSE dir[n]]

\* The entries of dir among names.
Keep(dir, names) == [n \in DOMAIN dir \cap names |-> dir[n]]

\* A file that does not parse.
Corrupt == [corrupt |-> TRUE]

\* What a keystore file holds.
Keystore(keys) == [keys |-> keys]

\* FileBasedKeystore::new(path): the keys of the file, none when there is
\* no file (as at line 1201 in a new directory), an error when it does not parse.
FileBasedKeystore_new(dir, name) ==
    IF name \notin DOMAIN dir THEN [ok |-> TRUE, val |-> <<>>]
    ELSE IF dir[name] = Corrupt THEN Err("keystore")
    ELSE [ok |-> TRUE, val |-> dir[name].keys]

\* PersistedConfig::read(path)
PersistedConfig_read(dir, name) ==
    IF name \notin DOMAIN dir THEN Err("no such file")
    ELSE IF dir[name] = Corrupt THEN Err("parse")
    ELSE [ok |-> TRUE, val |-> dir[name]]

\* GenesisConfig::for_local_testing()
GenesisConfig_for_local_testing ==
    [validator_config_info |-> None, ssfn_config_info |-> None,
     epoch_duration_ms |-> None, accounts |-> [generated |-> TRUE],
     faucet |-> FALSE]

\* GenesisConfig::for_local_testing_with_addresses(addresses)
GenesisConfig_for_local_testing_with_addresses(addresses) ==
    [GenesisConfig_for_local_testing EXCEPT !.accounts = [addresses |-> addresses]]

\* GenesisConfig::new_for_benchmarks(ips): one validator for each address.
GenesisConfig_new_for_benchmarks(ips) ==
    [GenesisConfig_for_local_testing EXCEPT
        !.validator_config_info = Some(Len(ips)),
        !.accounts = [benchmark |-> TRUE]]

\* sui_config::validator_config_file(address, i), for the first validators
validator_config_file ==
    << "validator-config-0.yaml", "validator-config-1.yaml",
       "validator-config-2.yaml", "validator-config-3.yaml" >>

\* SuiClientConfig::add_env: an alias is added once.
add_env(envs, alias) ==
    IF alias \in Range(envs) THEN envs ELSE Append(envs, alias)

\* The check on a directory that is not empty without the count of its entries.
NonEmptyRejected_without_count(a, files) ==
    /\ is_none(a.write_config) /\ files # {}
    /\ ~a.force
    /\ \/ SUI_CLIENT_CONFIG \notin files
       \/ SUI_KEYSTORE_FILENAME \notin files

\* The check on a directory that is not empty, lines 1103 and 1133.
NonEmptyRejected(a, files) ==
    /\ is_none(a.write_config) /\ files # {}
    /\ ~a.force
    /\ \/ Cardinality(files) # 2
       \/ SUI_CLIENT_CONFIG \notin files
       \/ SUI_KEYSTORE_FILENAME \notin files

\* The number of validators of the network built at lines 1183-1199:
\* those of the configuration, --committee-size when it has none.
Validators(validator_info, committee_size) ==
    IF is_some(validator_info) THEN validator_info.some
    ELSE CommitteeSize(committee_size).some

\* What genesis leaves: the Result, the directory afterwards and the file
\* --write-config wrote.
Outcome(r, d, w) == [result |-> r, dir |-> d, written |-> w]

\* Lines 1106-1132: what --force leaves of a directory with entries, the
\* keystore and the client config when both can be read, nothing otherwise.
Cleaned(d0) ==
    IF /\ FileBasedKeystore_new(d0, SUI_KEYSTORE_FILENAME).ok
       /\ PersistedConfig_read(d0, SUI_CLIENT_CONFIG).ok
    THEN Keep(d0, {SUI_CLIENT_CONFIG, SUI_KEYSTORE_FILENAME})
    ELSE EmptyDir

\* Lines 1141-1162: the genesis configuration, or the error of reading it.
GenesisConf(a, d1) ==
    IF is_some(a.from_config)
    THEN IF a.from_config.some.holds = Corrupt THEN Err("parse")
         ELSE [ok |-> TRUE, val |-> a.from_config.some.holds]
    ELSE IF is_some(a.benchmark_ips)
    THEN IF ~FileBasedKeystore_new(d1, SUI_BENCHMARK_GENESIS_GAS_KEYSTORE_FILENAME).ok
         THEN Err("keystore")
         ELSE [ok |-> TRUE, val |-> GenesisConfig_new_for_benchmarks(a.benchmark_ips.some)]
    ELSE IF SUI_KEYSTORE_FILENAME \in DOMAIN d1
    THEN IF ~FileBasedKeystore_new(d1, SUI_KEYSTORE_FILENAME).ok
         THEN Err("keystore")
         ELSE [ok |-> TRUE,
               val |-> GenesisConfig_for_local_testing_with_addresses(
                          FileBasedKeystore_new(d1, SUI_KEYSTORE_FILENAME).val)]
    ELSE [ok |-> TRUE, val |-> GenesisConfig_for_local_testing]

\* Lines 1144-1151: the directory with the keystore of the benchmark gas keys.
BenchmarkKeystore(a, d1) ==
    IF is_none(a.from_config) /\ is_some(a.benchmark_ips)
    THEN Put(d1, SUI_BENCHMARK_GENESIS_GAS_KEYSTORE_FILENAME,
             Keystore(FileBasedKeystore_new(
                          d1, SUI_BENCHMARK_GENESIS_GAS_KEYSTORE_FILENAME).val
                      \o [i \in 1..Len(a.benchmark_ips.some) |-> "gas_key"]))
    ELSE d1

\* Lines 1176-1199: the network built from the genesis configuration.
NetworkConfig(a, genesis_conf, account_keys) ==
    [validators |-> Validators(genesis_conf.validator_config_info, a.committee_size),
     epoch_duration_ms |->
         IF is_some(a.epoch_duration_ms) THEN a.epoch_duration_ms
         ELSE genesis_conf.epoch_duration_ms,
     accounts |-> genesis_conf.accounts,
     faucet |-> genesis_conf.faucet,
     account_keys |-> account_keys]

\* Lines 1201-1204: the keystore with the account keys added; there is a
\* keystore file once it has a key.
AddKeys(d2, account_keys) ==
    LET keys == FileBasedKeystore_new(d2, SUI_KEYSTORE_FILENAME).val \o account_keys
    IN  IF keys # <<>> \/ SUI_KEYSTORE_FILENAME \in DOMAIN d2
        THEN Put(d2, SUI_KEYSTORE_FILENAME, Keystore(keys)) ELSE d2

\* Lines 1207-1282: the genesis blob, network.yaml, fullnode.yaml and the
\* configuration of each validator are saved.
Saved(d3, network_config) ==
    LET saved == Put(Put(Put(d3,
                     SUI_GENESIS_FILENAME, [genesis |-> network_config]),
                     SUI_NETWORK_CONFIG, network_config),
                     SUI_FULLNODE_CONFIG, [fullnode |-> TRUE])
        configs == { validator_config_file[i] : i \in 1..network_config.validators }
    IN  [n \in DOMAIN saved \cup configs |->
            IF n \in configs THEN [validator |-> TRUE] ELSE saved[n]]

\* genesis, lines 1284-1321: the client config is read or made, completed
\* and saved.
genesis_client_config(d4) ==
    LET keys == FileBasedKeystore_new(d4, SUI_KEYSTORE_FILENAME).val
        active_address == IF keys = <<>> THEN None ELSE Some(keys[Len(keys)])
        client0 == IF SUI_CLIENT_CONFIG \in DOMAIN d4
                   THEN PersistedConfig_read(d4, SUI_CLIENT_CONFIG).val
                   ELSE [keystore |-> SUI_KEYSTORE_FILENAME, envs |-> <<>>,
                         active_env |-> None, active_address |-> None]
        envs == add_env(add_env(client0.envs, "localnet"), "devnet")
        client_config ==
            [keystore |-> client0.keystore,
             envs |-> envs,
             active_env |-> IF is_none(client0.active_env) THEN Some(envs[1])
                            ELSE client0.active_env,
             active_address |-> IF is_none(client0.active_address) THEN active_address
                                ELSE client0.active_address]
    IN  IF SUI_CLIENT_CONFIG \in DOMAIN d4 /\ ~PersistedConfig_read(d4, SUI_CLIENT_CONFIG).ok
        THEN Outcome(Err("parse"), d4, None)
        ELSE Outcome([ok |-> TRUE], Put(d4, SUI_CLIENT_CONFIG, client_config), None)

\* genesis, lines 1176-1282: the committee size, the network, the keystore,
\* the files of the network.
genesis_build(a, d2, genesis_conf, fail, account_keys) ==
    IF is_none(CommitteeSize(a.committee_size))
    THEN Outcome(Err("Committee size must be at least 1."), d2, None)
    ELSE IF ~FileBasedKeystore_new(d2, SUI_KEYSTORE_FILENAME).ok
    THEN Outcome(Err("keystore"), d2, None)
    ELSE IF fail = "save"
    THEN Outcome(Err("io error"), AddKeys(d2, account_keys), None)
    ELSE genesis_client_config(
             Saved(AddKeys(d2, account_keys),
                   NetworkConfig(a, genesis_conf, account_keys)))

\* genesis, lines 1138-1174: the genesis configuration, the faucet account,
\* --write-config.
genesis_configure(a, d1, fail, account_keys) ==
    LET conf == GenesisConf(a, d1)
        genesis_conf == IF a.with_faucet THEN [conf.val EXCEPT !.faucet = TRUE]
                        ELSE conf.val
    IN  IF ~conf.ok THEN Outcome(conf, d1, None)
        ELSE IF is_some(a.write_config)
        THEN IF fail = "save"
             THEN Outcome(Err("io error"), BenchmarkKeystore(a, d1), None)
             ELSE Outcome([ok |-> TRUE], BenchmarkKeystore(a, d1), Some(genesis_conf))
        ELSE genesis_build(a, BenchmarkKeystore(a, d1), genesis_conf, fail, account_keys)

\* genesis, lines 1095-1136: the entries of the directory are read; a
\* directory with entries is cleaned under --force, refused without it
\* unless it holds exactly the client config and the keystore.
genesis_read_dir(a, d0, fail, account_keys) ==
    LET cleaning == is_none(a.write_config) /\ DOMAIN d0 # {} /\ a.force
    IN  IF is_none(d0) \/ fail = "read_dir"
        THEN Outcome(Err("Cannot open Sui config dir"), d0, None)
        ELSE IF cleaning /\ fail = "remove"
        THEN Outcome(Err("Cannot remove"), d0, None)
        ELSE IF NonEmptyRejected(a, DOMAIN d0)
        THEN Outcome(Err("Cannot run genesis with non-empty Sui config directory {}, please use the --force/-f option to remove the existing configuration"),
                     d0, None)
        ELSE genesis_configure(a, IF cleaning THEN Cleaned(d0) ELSE d0,
                               fail, account_keys)

\* genesis(from_config, write_config, working_dir, force, epoch_duration_ms,
\*         benchmark_ips, with_faucet, committee_size)
\* on the directory dir; fail names the step whose I/O fails, account_keys
\* are the keys of the accounts the network is built with.  Lines 1078-1090:
\* the directory given must exist, the default one is made.
genesis(a, dir, fail, account_keys) ==
    IF is_none(a.working_dir) /\ fail = "create_dir_all"
    THEN Outcome(Err("io error"), dir, None)
    ELSE genesis_read_dir(a, IF is_none(a.working_dir) /\ is_none(dir)
                             THEN EmptyDir ELSE dir,
                          fail, account_keys)

(***************************************************************************)
(* The values under study.                                                 *)
(***************************************************************************)
Addr_1 == ONE
Addr_a == AddressOf(0, 10)
Addr_b == AddressOf(0, 11)
\* An address whose first hex digit is not zero: 0xab00...00cd.
Addr_wide == AddressOf(171, 205)

\* (address, module, name) of the structs under study.
Heads ==
    { <<Addr_1, <<"f", "o", "o">>, <<"B", "a", "r">> >>,
      <<Addr_a, <<"m">>, <<"T">> >>,
      <<Addr_b, <<"m">>, <<"T">> >> }

RECURSIVE TagsOfSize(_)
RECURSIVE ParamsOfSize(_)

\* The non-empty sequences of TypeTags with k nodes in total.
ParamsOfSize(k) ==
    UNION { { <<t>> \o rest :
                t \in TagsOfSize(j),
                rest \in (IF j = k THEN {<<>>} ELSE ParamsOfSize(k - j)) } :
            j \in 1..k }

\* The TypeTags with exactly n nodes.
TagsOfSize(n) ==
    IF n = 1
    THEN { Prim(p) : p \in Primitives }
         \cup { Struct(StructTag(h[1], h[2], h[3], <<>>)) : h \in Heads }
    ELSE { Vector(t) : t \in TagsOfSize(n - 1) }
         \cup { Struct(StructTag(h[1], h[2], h[3], ps)) :
                  h \in Heads, ps \in ParamsOfSize(n - 1) }

\* Types that hold the address without leading zeros.
WideAddressTags ==
    LET wide == StructTag(Addr_wide, <<"m">>, <<"T">>, <<>>)
        low  == StructTag(Addr_a, <<"m">>, <<"T">>, <<>>)
    IN  { Struct(wide),
          Vector(Struct(wide)),
          Struct(StructTag(Addr_a, <<"m">>, <<"T">>, <<Struct(wide)>>)),
          Struct(StructTag(Addr_wide, <<"m">>, <<"T">>, <<Struct(low), Struct(wide)>>)) }

Universe == UNION { TagsOfSize(n) : n \in 1..MaxNodes } \cup WideAddressTags

\* The right operands of cmp: every variant, structs that differ from one
\* another in one field or in two fields in opposite directions, type
\* arguments that are a prefix or a permutation of one another.
Probes ==
    { Prim(p) : p \in Primitives }
    \cup { Vector(Prim("U8")), Vector(Prim("U256")), Vector(Vector(Prim("Bool"))) }
    \cup { Struct(StructTag(Addr_a, <<"m">>, <<"T">>, <<>>)),
           Struct(StructTag(Addr_b, <<"m">>, <<"T">>, <<>>)),
           Struct(StructTag(Addr_b, <<"a">>, <<"T">>, <<>>)),
           Struct(StructTag(Addr_a, <<"n">>, <<"T">>, <<>>)),
           Struct(StructTag(Addr_a, <<"n">>, <<"A">>, <<>>)),
           Struct(StructTag(Addr_a, <<"m">>, <<"U">>, <<>>)),
           Struct(StructTag(Addr_a, <<"m", "m">>, <<"T">>, <<>>)),
           Struct(StructTag(AddressOf(1, 0), <<"a">>, <<"A">>, <<>>)),
           Struct(StructTag(AddressOf(0, 255), <<"z">>, <<"Z">>, <<>>)),
           Struct(StructTag(Addr_a, <<"m">>, <<"T">>, <<Prim("U8")>>)),
           Struct(StructTag(Addr_a, <<"m">>, <<"T">>, <<Prim("U8"), Prim("U64")>>)),
           Struct(StructTag(Addr_a, <<"m">>, <<"T">>, <<Prim("U64"), Prim("U8")>>)),
           Struct(StructTag(Addr_a, <<"m">>, <<"T">>, <<Prim("U16")>>)) }

\* start has not been called.
StartNotCalled ==
    /\ start_args = None /\ file_system = None /\ at = "idle"
    /\ with_indexer = None /\ data_ingestion_dir = None /\ config_dir = None
    /\ swarm_builder = None /\ log = <<>> /\ result = None
    /\ tempdirs = 0 /\ unhealthy_cnt = 0
    /\ genesis_args = None /\ directory = None
    /\ host_port = None /\ default_port = 0 /\ socket_addr = None

(***************************************************************************)
(* The state machine: a value is drawn, then one method is applied to it.  *)
(***************************************************************************)
Init ==
    /\ v \in Universe
    /\ pc = "new"
    /\ kind = "TypeTag"
    /\ with_prefix = FALSE
    /\ text = <<>>
    /\ parsed = None
    /\ size = 0
    /\ addrs = <<>>
    /\ other = None
    /\ ord = "Equal"
    /\ json = None
    /\ StartNotCalled

\* TypeTag::to_canonical_string(with_prefix)
TypeTag_to_canonical_string(wp) ==
    /\ pc = "new"
    /\ pc' = "to_canonical_string"
    /\ kind' = "TypeTag"
    /\ with_prefix' = wp
    /\ text' = TypeTag_to_canonical_display(v, wp)
    /\ UNCHANGED <<v, json, parsed, size, addrs, other, ord>>
    /\ UNCHANGED <<startVars, genesisVars, hostVars>>

\* StructTag::to_canonical_string(with_prefix), on the StructTag of v
StructTag_to_canonical_string(wp) ==
    /\ pc = "new"
    /\ v.tag = "Struct"
    /\ pc' = "to_canonical_string"
    /\ kind' = "StructTag"
    /\ with_prefix' = wp
    /\ text' = StructTag_to_canonical_display(v.s, wp)
    /\ UNCHANGED <<v, json, parsed, size, addrs, other, ord>>
    /\ UNCHANGED <<startVars, genesisVars, hostVars>>

\* ModuleId::to_canonical_string(with_prefix), on the ModuleId of v's struct
\* (a ModuleId holds the address and the module only: the structs without
\* type arguments give every ModuleId there is)
ModuleId_to_canonical_string(wp) ==
    /\ pc = "new"
    /\ v.tag = "Struct" /\ v.s.type_params = <<>>
    /\ pc' = "to_canonical_string"
    /\ kind' = "ModuleId"
    /\ with_prefix' = wp
    /\ text' = ModuleId_to_canonical_display(module_id(v.s), wp)
    /\ UNCHANGED <<v, json, parsed, size, addrs, other, ord>>
    /\ UNCHANGED <<startVars, genesisVars, hostVars>>

\* from_str of the type whose to_canonical_string produced text
from_str ==
    /\ pc = "to_canonical_string"
    /\ pc' = "from_str"
    /\ parsed' = CASE kind = "TypeTag"   -> TypeTag_from_str(text)
                   [] kind = "StructTag" -> StructTag_from_str(text)
                   [] kind = "ModuleId"  -> ModuleId_from_str(text)
    /\ UNCHANGED <<v, json, kind, with_prefix, text, size, addrs, other, ord>>
    /\ UNCHANGED <<startVars, genesisVars, hostVars>>

\* TypeTag::cmp(v, o); for two structs this is StructTag::cmp
TypeTag_compare(o) ==
    /\ pc = "new"
    /\ pc' = "cmp"
    /\ kind' = "TypeTag"
    /\ other' = o
    /\ ord' = TypeTag_cmp(v, o)
    /\ UNCHANGED <<v, json, with_prefix, text, parsed, size, addrs>>
    /\ UNCHANGED <<startVars, genesisVars, hostVars>>

\* ModuleId::cmp of the ModuleIds of two structs
ModuleId_compare(o) ==
    /\ pc = "new"
    /\ v.tag = "Struct" /\ v.s.type_params = <<>>
    /\ o.tag = "Struct"
    /\ pc' = "cmp"
    /\ kind' = "ModuleId"
    /\ other' = o
    /\ ord' = ModuleId_cmp(module_id(v.s), module_id(o.s))
    /\ UNCHANGED <<v, json, with_prefix, text, parsed, size, addrs>>
    /\ UNCHANGED <<startVars, genesisVars, hostVars>>

\* TypeTag::abstract_size_for_gas_metering
TypeTag_size ==
    /\ pc = "new"
    /\ pc' = "abstract_size_for_gas_metering"
    /\ kind' = "TypeTag"
    /\ size' = TypeTag_abstract_size_for_gas_metering(v)
    /\ UNCHANGED <<v, json, with_prefix, text, parsed, addrs, other, ord>>
    /\ UNCHANGED <<startVars, genesisVars, hostVars>>

\* StructTag::abstract_size_for_gas_metering, on the StructTag of v
StructTag_size ==
    /\ pc = "new"
    /\ v.tag = "Struct"
    /\ pc' = "abstract_size_for_gas_metering"
    /\ kind' = "StructTag"
    /\ size' = StructTag_abstract_size_for_gas_metering(v.s)
    /\ UNCHANGED <<v, json, with_prefix, text, parsed, addrs, other, ord>>
    /\ UNCHANGED <<startVars, genesisVars, hostVars>>

\* TypeTag::all_addresses
TypeTag_addresses ==
    /\ pc = "new"
    /\ pc' = "all_addresses"
    /\ kind' = "TypeTag"
    /\ addrs' = TypeTag_all_addresses(v)
    /\ UNCHANGED <<v, json, with_prefix, text, parsed, size, other, ord>>
    /\ UNCHANGED <<startVars, genesisVars, hostVars>>

\* StructTag::all_addresses, on the StructTag of v
StructTag_addresses ==
    /\ pc = "new"
    /\ v.tag = "Struct"
    /\ pc' = "all_addresses"
    /\ kind' = "StructTag"
    /\ addrs' = StructTag_all_addresses(v.s)
    /\ UNCHANGED <<v, json, with_prefix, text, parsed, size, other, ord>>
    /\ UNCHANGED <<startVars, genesisVars, hostVars>>

\* Rendering and parsing.
Next ==
    \/ \E wp \in BOOLEAN : TypeTag_to_canonical_string(wp)
    \/ \E wp \in BOOLEAN : StructTag_to_canonical_string(wp)
    \/ \E wp \in BOOLEAN : ModuleId_to_canonical_string(wp)
    \/ from_str

Spec == Init /\ [][Next]_vars

\* Comparing.
NextCmp ==
    \/ \E o \in Probes : TypeTag_compare(o)
    \/ \E o \in Probes : ModuleId_compare(o)

SpecCmp == Init /\ [][NextCmp]_vars

\* The folds over a type: its abstract size and its addresses.
NextFold ==
    \/ TypeTag_size
    \/ StructTag_size
    \/ TypeTag_addresses
    \/ StructTag_addresses

SpecFold == Init /\ [][NextFold]_vars

\* The malformed inputs named by the parser's contract.
MalformedLiterals ==
    { <<"v", "e", "c", "t", "o", "r", "<", "u", "6", "4">>,
      <<"0", "x", "z", "z", ":", ":", "m", ":", ":", "T">> }

\* The positions of canon's address digits that follow a "0x".
AddressDigitStarts(canon) ==
    { i \in 3..Len(canon) : canon[i - 2] = "0" /\ canon[i - 1] = "x" }

\* canon made malformed: its closing ">" dropped, or the first digit of one
\* of its prefixed addresses replaced by a character that is no hex digit.
Malformed(canon) ==
    (IF Len(canon) > 0 /\ canon[Len(canon)] = ">"
     THEN { SubSeq(canon, 1, Len(canon) - 1) } ELSE {})
    \cup { [canon EXCEPT ![i] = "z"] : i \in AddressDigitStarts(canon) }

\* TypeTag::from_str on a malformed input
TypeTag_from_str_malformed(wp) ==
    /\ pc = "new"
    /\ \E s \in Malformed(TypeTag_to_canonical_display(v, wp)) \cup MalformedLiterals :
          /\ text' = s
          /\ parsed' = TypeTag_from_str(s)
    /\ pc' = "from_str_malformed"
    /\ kind' = "TypeTag"
    /\ with_prefix' = wp
    /\ UNCHANGED <<v, json, size, addrs, other, ord>>
    /\ UNCHANGED <<startVars, genesisVars, hostVars>>

\* StructTag::from_str on a malformed input
StructTag_from_str_malformed(wp) ==
    /\ pc = "new"
    /\ v.tag = "Struct"
    /\ \E s \in Malformed(StructTag_to_canonical_display(v.s, wp)) \cup MalformedLiterals :
          /\ text' = s
          /\ parsed' = StructTag_from_str(s)
    /\ pc' = "from_str_malformed"
    /\ kind' = "StructTag"
    /\ with_prefix' = wp
    /\ UNCHANGED <<v, json, size, addrs, other, ord>>
    /\ UNCHANGED <<startVars, genesisVars, hostVars>>

\* Parsing malformed input.
NextParse ==
    \/ \E wp \in BOOLEAN : TypeTag_from_str_malformed(wp)
    \/ \E wp \in BOOLEAN : StructTag_from_str_malformed(wp)

SpecParse == Init /\ [][NextParse]_vars

RECURSIVE HistoricalSpelling(_, _, _)

\* The encoding d as older writers spelled it: with the variant names
\* capitalized (capital) and with the field type_args named type_params
\* (old_field).
HistoricalSpelling(d, capital, old_field) ==
    LET name(n) == IF capital THEN VariantAlias(VariantOfName(n)) ELSE n
        key(k) == IF old_field /\ k = "type_args" THEN "type_params" ELSE k
    IN  CASE d.ser = "unit_variant" -> unit_variant(name(d.variant))
          [] d.ser = "newtype_variant" ->
                newtype_variant(name(d.variant),
                                HistoricalSpelling(d.value, capital, old_field))
          [] d.ser = "struct" ->
                struct([i \in 1..Len(d.fields) |->
                          <<key(d.fields[i][1]),
                            HistoricalSpelling(d.fields[i][2], capital, old_field)>>])
          [] d.ser = "seq" ->
                seq([i \in 1..Len(d.items) |->
                       HistoricalSpelling(d.items[i], capital, old_field)])
          [] OTHER -> d

\* serde_json::to_string(&v) of a TypeTag
TypeTag_to_json ==
    /\ pc = "new"
    /\ pc' = "serialize"
    /\ kind' = "TypeTag"
    /\ json' = TypeTag_serialize(v)
    /\ UNCHANGED <<v, with_prefix, text, parsed, size, addrs, other, ord>>
    /\ UNCHANGED <<startVars, genesisVars, hostVars>>

\* serde_json::to_string of the StructTag of v
StructTag_to_json ==
    /\ pc = "new"
    /\ v.tag = "Struct"
    /\ pc' = "serialize"
    /\ kind' = "StructTag"
    /\ json' = StructTag_serialize(v.s)
    /\ UNCHANGED <<v, with_prefix, text, parsed, size, addrs, other, ord>>
    /\ UNCHANGED <<startVars, genesisVars, hostVars>>

\* serde_json::from_str of an encoding, as written or in a historical spelling
from_json(capital, old_field) ==
    /\ pc = "serialize"
    /\ pc' = "deserialize"
    /\ json' = HistoricalSpelling(json, capital, old_field)
    /\ parsed' = IF kind = "TypeTag" THEN TypeTag_deserialize(json')
                  ELSE StructTag_deserialize(json')
    /\ UNCHANGED <<v, kind, with_prefix, text, size, addrs, other, ord>>
    /\ UNCHANGED <<startVars, genesisVars, hostVars>>

\* Encoding and decoding.
NextSerde ==
    \/ TypeTag_to_json
    \/ StructTag_to_json
    \/ \E capital, old_field \in BOOLEAN : from_json(capital, old_field)

SpecSerde == Init /\ [][NextSerde]_vars

\* format!("{}", v) of a TypeTag
TypeTag_to_string ==
    /\ pc = "new"
    /\ pc' = "fmt"
    /\ kind' = "TypeTag"
    /\ text' = TypeTag_fmt(v)
    /\ UNCHANGED <<v, json, with_prefix, parsed, size, addrs, other, ord>>
    /\ UNCHANGED <<startVars, genesisVars, hostVars>>

\* format!("{}", s) of the StructTag of v
StructTag_to_string ==
    /\ pc = "new"
    /\ v.tag = "Struct"
    /\ pc' = "fmt"
    /\ kind' = "StructTag"
    /\ text' = StructTag_fmt(v.s)
    /\ UNCHANGED <<v, json, with_prefix, parsed, size, addrs, other, ord>>
    /\ UNCHANGED <<startVars, genesisVars, hostVars>>

\* format!("{}", id) of the ModuleId of v's struct
ModuleId_to_string ==
    /\ pc = "new"
    /\ v.tag = "Struct" /\ v.s.type_params = <<>>
    /\ pc' = "fmt"
    /\ kind' = "ModuleId"
    /\ text' = ModuleId_fmt(module_id(v.s))
    /\ UNCHANGED <<v, json, with_prefix, parsed, size, addrs, other, ord>>
    /\ UNCHANGED <<startVars, genesisVars, hostVars>>

\* Display.
NextDisplay ==
    \/ TypeTag_to_string
    \/ StructTag_to_string
    \/ ModuleId_to_string

SpecDisplay == Init /\ [][NextDisplay]_vars

(***************************************************************************)
(* sui start: the state machine of start().  Each action is the code       *)
(* between two awaits; what the environment decides (a directory cannot    *)
(* be made, genesis fails, a file cannot be read, the swarm does not       *)
(* launch, a node is unhealthy) is chosen freely.                          *)
(***************************************************************************)
\* The arguments start is called with.
HostPorts(default) ==
    { None,
      Some(<<"0", ".", "0", ".", "0", ".", "0", ":">> \o ToDecimal(default)),
      Some(<<"6", "1", "2", "4">>),
      Some(<<"l", "o", "c", "a", "l", "h", "o", "s", "t">>),
      Some(<<"b", "a", "d">>) }

StartArgs ==
    [ config : { None, Some([path |-> "network.yaml", yaml_file |-> TRUE]),
                 Some([path |-> "config", yaml_file |-> FALSE]) },
      with_faucet : { None,
                      Some(<<"0", ".", "0", ".", "0", ".", "0", ":">>
                           \o ToDecimal(DEFAULT_FAUCET_PORT)),
                      Some(<<"[", ":", ":", "1", "]", ":", "9", "1", "2", "3">>) },
      with_indexer : HostPorts(DEFAULT_INDEXER_PORT),
      with_graphql : HostPorts(DEFAULT_GRAPHQL_PORT),
      force_regenesis : BOOLEAN,
      epoch_duration_ms : { None, Some(1000) },
      fullnode_rpc_port : { DEFAULT_FULLNODE_RPC_PORT },
      data_ingestion_dir : { None, Some([path |-> "ingestion"]) },
      no_full_node : BOOLEAN,
      committee_size : { None, Some(0), Some(4) } ]

\* What start finds on disk: a genesis blob, a network.yaml in the Sui
\* config directory.
FileSystems == [ genesis_blob : BOOLEAN, network_config : BOOLEAN ]

\* The steps of genesis whose I/O may fail, "none" when none does.
GenesisFailures == { "none", "create_dir_all", "read_dir", "remove", "save" }

\* The keys of the accounts a network is built with.
AccountKeys == { <<>>, <<"account_key">> }

\* A client.yaml and a sui.keystore as an earlier genesis left them.
ClientConfig ==
    [keystore |-> SUI_KEYSTORE_FILENAME, envs |-> <<"localnet", "devnet">>,
     active_env |-> Some("localnet"), active_address |-> Some("old_key")]
OldKeystore == Keystore(<<"old_key">>)

\* The directory with exactly the client config and the keystore.
ClientAndKeystore ==
    Put(Put(EmptyDir, SUI_CLIENT_CONFIG, ClientConfig),
        SUI_KEYSTORE_FILENAME, OldKeystore)

\* A network configuration generated earlier, with two validators.
ExistingNetworkConfig ==
    [validators |-> 2, epoch_duration_ms |-> Some(5000),
     accounts |-> [generated |-> TRUE], faucet |-> FALSE,
     account_keys |-> <<"old_key">>]

\* The Sui config directory as an earlier genesis left it.
ExistingNetwork ==
    Put(Put(Put(ClientAndKeystore,
        SUI_GENESIS_FILENAME, [genesis |-> ExistingNetworkConfig]),
        SUI_NETWORK_CONFIG, ExistingNetworkConfig),
        SUI_FULLNODE_CONFIG, [fullnode |-> TRUE])

\* The Sui config directory start may find.
StartDirectories ==
    { EmptyDir, ClientAndKeystore, Put(EmptyDir, "other", [data |-> TRUE]),
      ExistingNetwork }

\* The arguments start calls genesis with, line 857.
GenesisFromStart(a) ==
    [from_config |-> None, write_config |-> None, working_dir |-> None,
     force |-> FALSE, epoch_duration_ms |-> a.epoch_duration_ms,
     benchmark_ips |-> None, with_faucet |-> FALSE,
     committee_size |-> a.committee_size]

\* start is called: no method of the type tags is in use.
InitStart ==
    /\ v = Prim("Bool") /\ pc = "new" /\ kind = "TypeTag" /\ with_prefix = FALSE
    /\ text = <<>> /\ parsed = None /\ size = 0 /\ addrs = <<>>
    /\ other = None /\ ord = "Equal" /\ json = None
    /\ start_args \in StartArgs
    /\ file_system \in FileSystems
    /\ at = "start"
    /\ with_indexer = start_args.with_indexer
    /\ data_ingestion_dir = start_args.data_ingestion_dir
    /\ config_dir = None
    /\ swarm_builder = None
    /\ log = <<>>
    /\ result = None
    /\ tempdirs = 0
    /\ unhealthy_cnt = 0
    /\ genesis_args = None
    /\ host_port = None /\ default_port = 0 /\ socket_addr = None
    /\ directory \in StartDirectories
    /\ file_system.network_config = (SUI_NETWORK_CONFIG \in DOMAIN directory)

\* return Err(msg), after the effects in done
Return(msg, done) ==
    /\ at' = "returned"
    /\ result' = Err(msg)
    /\ log' = log \o done

\* The fullnode URL: the default JSON-RPC address with the port given.
FullnodeUrl == [host |-> "default_json_rpc_address", port |-> start_args.fullnode_rpc_port]

\* The connection string of the indexer database.
PgAddress == "postgres://{pg_user}:{pg_password}@{pg_host}:{pg_port}/{pg_db_name}"

\* start, lines 756-794: the checks, then Swarm::builder()
start_validate ==
    /\ at = "start"
    /\ with_indexer' = EnabledIndexer(start_args.with_indexer, start_args.with_graphql)
    /\ IF Validate(start_args, file_system).ok
       THEN /\ at' = "configure"
            /\ swarm_builder' = SwarmBuilder
            /\ UNCHANGED <<log, result>>
       ELSE /\ Return(Validate(start_args, file_system).err, <<>>)
            /\ UNCHANGED swarm_builder
    /\ UNCHANGED <<start_args, file_system, data_ingestion_dir, config_dir,
                   tempdirs, unhealthy_cnt>>
    /\ UNCHANGED <<typeVars, genesisVars, hostVars>>

\* start, lines 798-911: a regenesis in a temporary directory, or the
\* network configuration on disk, generated first when there is none
start_configure ==
    /\ at = "configure"
    /\ \E tempdir_ok, read_ok \in BOOLEAN, fail \in GenesisFailures,
          account_keys \in AccountKeys :
          IF start_args.force_regenesis
          THEN IF is_none(CommitteeSize(start_args.committee_size))
               THEN /\ Return("Committee size must be at least 1.", <<>>)
                    /\ UNCHANGED <<swarm_builder, config_dir, tempdirs, directory>>
               ELSE IF ~tempdir_ok
               THEN /\ Return("io error", <<>>)
                    /\ UNCHANGED <<swarm_builder, config_dir, tempdirs, directory>>
               ELSE /\ swarm_builder' =
                          [swarm_builder EXCEPT
                             !.committee_size = CommitteeSize(start_args.committee_size),
                             !.genesis_config = Some("custom_genesis(1, 100)"),
                             !.epoch_duration_ms =
                                 IF is_some(start_args.epoch_duration_ms)
                                 THEN start_args.epoch_duration_ms
                                 ELSE Some(DEFAULT_EPOCH_DURATION_MS)]
                    /\ tempdirs' = tempdirs + 1
                    /\ config_dir' = TempDir(tempdirs + 1)
                    /\ at' = "swarm"
                    /\ UNCHANGED <<log, result, directory>>
          ELSE LET c == start_args.config
                   sui_config_path ==
                       IF is_some(c) /\ ~c.some.yaml_file THEN [path |-> c.some.path]
                       ELSE [path |-> "sui_config_dir"]
                   generate == is_none(c) /\ ~file_system.network_config
                   generated ==
                       IF generate
                       THEN << [op |-> "genesis",
                                epoch_duration_ms |-> start_args.epoch_duration_ms,
                                committee_size |-> start_args.committee_size] >>
                       ELSE <<>>
                   g == genesis(GenesisFromStart(start_args), directory,
                                fail, account_keys)
                   network_config ==
                       IF is_some(c) THEN [ok |-> TRUE, val |-> ExistingNetworkConfig]
                       ELSE PersistedConfig_read(directory', SUI_NETWORK_CONFIG)
               IN  /\ directory' = IF generate THEN g.dir ELSE directory
                   /\ IF generate /\ ~g.result.ok
                      THEN /\ Return("Cannot run genesis with non-empty Sui config directory",
                                     generated)
                           /\ UNCHANGED <<swarm_builder, config_dir, tempdirs>>
                      ELSE IF ~read_ok \/ ~network_config.ok
                      THEN /\ Return("Cannot open Sui network config file", generated)
                           /\ UNCHANGED <<swarm_builder, config_dir, tempdirs>>
                      ELSE /\ swarm_builder' =
                                 [swarm_builder EXCEPT
                                    !.dir = Some(sui_config_path),
                                    !.network_config = Some(network_config.val)]
                           /\ config_dir' = sui_config_path
                           /\ log' = log \o generated
                           /\ at' = "swarm"
                           /\ UNCHANGED <<result, tempdirs>>
    /\ UNCHANGED <<start_args, file_system, with_indexer, data_ingestion_dir,
                   unhealthy_cnt>>
    /\ UNCHANGED <<typeVars, genesis_args, hostVars>>

\* start, lines 913-943: the data ingestion directory, the fullnodes,
\* swarm_builder.build() and swarm.launch()
start_swarm ==
    /\ at = "swarm"
    /\ \E tempdir_ok, launch_ok \in BOOLEAN :
          LET fresh == is_some(with_indexer) /\ is_none(data_ingestion_dir)
              dir == IngestionDir(with_indexer, data_ingestion_dir,
                                  TempDir(tempdirs + 1))
              b1 == IF is_some(dir)
                    THEN [swarm_builder EXCEPT !.data_ingestion_dir = dir]
                    ELSE swarm_builder
              b2 == IF start_args.no_full_node
                    THEN [b1 EXCEPT !.fullnode_count = 0]
                    ELSE [b1 EXCEPT !.fullnode_count = 1,
                                    !.fullnode_rpc_addr = Some(FullnodeUrl)]
          IN  IF fresh /\ ~tempdir_ok
              THEN /\ Return("io error", <<>>)
                   /\ UNCHANGED <<data_ingestion_dir, swarm_builder, tempdirs>>
              ELSE /\ data_ingestion_dir' = dir
                   /\ tempdirs' = IF fresh THEN tempdirs + 1 ELSE tempdirs
                   /\ swarm_builder' = b2
                   /\ IF launch_ok
                      THEN /\ log' = log \o << [op |-> "swarm_build", swarm |-> b2],
                                             [op |-> "swarm_launch"] >>
                           /\ at' = "indexer"
                           /\ UNCHANGED result
                      ELSE Return("swarm launch failed",
                                  << [op |-> "swarm_build", swarm |-> b2] >>)
    /\ UNCHANGED <<start_args, file_system, with_indexer, config_dir, unhealthy_cnt>>
    /\ UNCHANGED <<typeVars, genesisVars, hostVars>>

\* start, lines 945-957: the indexer in reader mode
start_indexer_reader ==
    /\ at = "indexer"
    /\ IF is_none(with_indexer)
       THEN /\ at' = "graphql"
            /\ UNCHANGED <<log, result>>
       ELSE LET indexer_address == parse_host_port(with_indexer.some, DEFAULT_INDEXER_PORT)
            IN  IF ~indexer_address.ok
                THEN Return("Invalid indexer host and port", <<>>)
                ELSE /\ log' = Append(log, [op |-> "indexer_reader",
                                            db_url |-> PgAddress,
                                            fullnode_url |-> FullnodeUrl,
                                            address |-> indexer_address.val])
                     /\ at' = "indexer_writer"
                     /\ UNCHANGED result
    /\ UNCHANGED <<start_args, file_system, with_indexer, data_ingestion_dir,
                   config_dir, swarm_builder, tempdirs, unhealthy_cnt>>
    /\ UNCHANGED <<typeVars, genesisVars, hostVars>>

\* start, lines 958-970: the indexer in writer mode
start_indexer_writer ==
    /\ at = "indexer_writer"
    /\ log' = Append(log, [op |-> "indexer_writer",
                           db_url |-> PgAddress,
                           data_ingestion_dir |-> data_ingestion_dir])
    /\ at' = "graphql"
    /\ UNCHANGED <<start_args, file_system, with_indexer, data_ingestion_dir,
                   config_dir, swarm_builder, result, tempdirs, unhealthy_cnt>>
    /\ UNCHANGED <<typeVars, genesisVars, hostVars>>

\* start, lines 972-991: the GraphQL server
start_graphql ==
    /\ at = "graphql"
    /\ IF is_none(start_args.with_graphql)
       THEN /\ at' = "faucet"
            /\ UNCHANGED <<log, result>>
       ELSE LET graphql_address ==
                    parse_host_port(start_args.with_graphql.some, DEFAULT_GRAPHQL_PORT)
            IN  IF ~graphql_address.ok
                THEN Return("Invalid graphql host and port", <<>>)
                ELSE /\ log' = Append(log, [op |-> "graphql",
                                            db_url |-> PgAddress,
                                            fullnode_url |-> FullnodeUrl,
                                            address |-> graphql_address.val])
                     /\ at' = "faucet"
                     /\ UNCHANGED result
    /\ UNCHANGED <<start_args, file_system, with_indexer, data_ingestion_dir,
                   config_dir, swarm_builder, tempdirs, unhealthy_cnt>>
    /\ UNCHANGED <<typeVars, genesisVars, hostVars>>

\* start, lines 993-1044: the faucet
start_faucet_service ==
    /\ at = "faucet"
    /\ \E faucet_ok \in BOOLEAN :
          IF is_none(start_args.with_faucet)
          THEN /\ at' = "health"
               /\ UNCHANGED <<log, result>>
          ELSE LET faucet_address ==
                       parse_host_port(start_args.with_faucet.some, DEFAULT_FAUCET_PORT)
                   saved == IF start_args.force_regenesis
                            THEN << [op |-> "client_config", dir |-> config_dir] >>
                            ELSE <<>>
               IN  IF ~faucet_address.ok
                   THEN Return("Invalid faucet host and port", <<>>)
                   ELSE IF "v4" \notin DOMAIN faucet_address.val
                   THEN Return("Faucet configuration requires an IPv4 address", <<>>)
                   ELSE IF ~faucet_ok
                   THEN Return("faucet failed", saved)
                   ELSE /\ log' = log \o saved
                                  \o << [op |-> "faucet", address |-> faucet_address.val] >>
                        /\ at' = "health"
                        /\ UNCHANGED result
    /\ UNCHANGED <<start_args, file_system, with_indexer, data_ingestion_dir,
                   config_dir, swarm_builder, tempdirs, unhealthy_cnt>>
    /\ UNCHANGED <<typeVars, genesisVars, hostVars>>

\* start, lines 1046-1065: one round of the health checks.  The validators
\* are checked in order: failing is 0 when all are healthy, else the
\* number of the first that is not.
health_check(failing) ==
    /\ at = "health"
    /\ failing > 1 => swarm_builder.committee_size \notin {None, Some(1)}
                      \/ ~start_args.force_regenesis
    /\ LET cnt == IF failing = 0 THEN 0
                  ELSE IF failing = 1 THEN unhealthy_cnt + 1
                  ELSE 1
       IN  IF failing # 0 /\ cnt > 3
           THEN /\ Return("health check failed", <<>>)
                /\ unhealthy_cnt' = cnt
           ELSE /\ unhealthy_cnt' = cnt
                /\ UNCHANGED <<at, log, result>>
    /\ UNCHANGED <<start_args, file_system, with_indexer, data_ingestion_dir,
                   config_dir, swarm_builder, tempdirs>>
    /\ UNCHANGED <<typeVars, genesisVars, hostVars>>

\* sui start.
NextStart ==
    \/ start_validate
    \/ start_configure
    \/ start_swarm
    \/ start_indexer_reader
    \/ start_indexer_writer
    \/ start_graphql
    \/ start_faucet_service
    \/ \E failing \in 0..2 : health_check(failing)

SpecStart == InitStart /\ [][NextStart]_vars

(***************************************************************************)
(* The state machine of sui genesis: the command is given its arguments    *)
(* and a Sui config directory, and genesis runs once.                      *)
(***************************************************************************)
\* The genesis configurations --from-config may name: without validator
\* info, with the info of three validators, a file that does not parse.
FromConfigs ==
    { None,
      Some([path |-> "genesis.yaml", holds |-> GenesisConfig_for_local_testing]),
      Some([path |-> "genesis.yaml",
            holds |-> [GenesisConfig_for_local_testing EXCEPT
                          !.validator_config_info = Some(3),
                          !.epoch_duration_ms = Some(7000)]]),
      Some([path |-> "genesis.yaml", holds |-> Corrupt]) }

GenesisArgs ==
    [ from_config : FromConfigs,
      write_config : { None, Some([path |-> "out.yaml"]) },
      working_dir : { None, Some([path |-> "work"]) },
      force : BOOLEAN,
      epoch_duration_ms : { None, Some(1000) },
      benchmark_ips : { None, Some(<<"10.0.0.1", "10.0.0.2">>) },
      with_faucet : BOOLEAN,
      committee_size : { None, Some(0), Some(4) } ]

\* The directories genesis may find: none, an empty one, the client config
\* and the keystore alone, one of the two, the two with one that does not
\* parse, other entries, the two and another entry, a generated network.
GenesisDirectories ==
    { None, EmptyDir, ClientAndKeystore, ExistingNetwork,
      Keep(ClientAndKeystore, {SUI_CLIENT_CONFIG}),
      Keep(ClientAndKeystore, {SUI_KEYSTORE_FILENAME}),
      Put(ClientAndKeystore, SUI_KEYSTORE_FILENAME, Corrupt),
      Put(ClientAndKeystore, SUI_CLIENT_CONFIG, Corrupt),
      Put(EmptyDir, "other", [data |-> TRUE]),
      Put(Put(EmptyDir, "other", [data |-> TRUE]), "another", [data |-> TRUE]),
      Put(Keep(ClientAndKeystore, {SUI_CLIENT_CONFIG}), "other", [data |-> TRUE]),
      Put(ClientAndKeystore, "other", [data |-> TRUE]) }

\* sui genesis is called: no method of the type tags is in use, start is not.
InitGenesis ==
    /\ v = Prim("Bool") /\ pc = "new" /\ kind = "TypeTag" /\ with_prefix = FALSE
    /\ text = <<>> /\ parsed = None /\ size = 0 /\ addrs = <<>>
    /\ other = None /\ ord = "Equal" /\ json = None
    /\ start_args = None /\ file_system = None
    /\ with_indexer = None /\ data_ingestion_dir = None /\ config_dir = None
    /\ swarm_builder = None /\ tempdirs = 0 /\ unhealthy_cnt = 0
    /\ at = "genesis"
    /\ log = <<>>
    /\ result = None
    /\ host_port = None /\ default_port = 0 /\ socket_addr = None
    /\ genesis_args \in GenesisArgs
    /\ directory \in GenesisDirectories

\* SuiCommand::Genesis, lines 421-442: genesis(..).await; what --write-config
\* wrote is recorded in log.
genesis_command ==
    /\ at = "genesis"
    /\ \E fail \in GenesisFailures, account_keys \in AccountKeys :
          LET g == genesis(genesis_args, directory, fail, account_keys)
          IN  /\ directory' = g.dir
              /\ result' = g.result
              /\ log' = IF is_some(g.written)
                        THEN << [op |-> "write_config",
                                 path |-> genesis_args.write_config.some,
                                 config |-> g.written.some] >>
                        ELSE <<>>
              /\ at' = "returned"
    /\ UNCHANGED <<start_args, file_system, with_indexer, data_ingestion_dir,
                   config_dir, swarm_builder, tempdirs, unhealthy_cnt, genesis_args>>
    /\ UNCHANGED <<typeVars, hostVars>>

NextGenesis == genesis_command

SpecGenesis == InitGenesis /\ [][NextGenesis]_vars

(***************************************************************************)
(* parse_host_port applied to the value of a HOST_PORT flag.               *)
(***************************************************************************)
\* The values under study: none, ports, hosts, both, and what is none of them.
HostPortInputs ==
    { <<>>,
      <<"0">>, <<"8", "0">>, <<"0", "0", "8", "0">>, <<"6", "1", "2", "4">>,
      <<"6", "5", "5", "3", "5">>, <<"6", "5", "5", "3", "6">>,
      <<"-", "1">>, <<"b", "a", "d">>, <<"8", "0", "a">>,
      <<"0", ".", "0", ".", "0", ".", "0">>,
      <<"1", "0", ".", "1", ".", "2", ".", "3">>,
      <<"2", "5", "5", ".", "2", "5", "5", ".", "2", "5", "5", ".", "2", "5", "5">>,
      <<"2", "5", "6", ".", "1", ".", "1", ".", "1">>,
      <<"1", ".", "2", ".", "3">>,
      <<"0", "1", ".", "2", ".", "3", ".", "4">>,
      <<"1", ".", "2", ".", "3", ".", "4", ".", "5">>,
      <<"s", "u", "i", ".", "i", "o">>,
      <<"l", "o", "c", "a", "l", "h", "o", "s", "t">>,
      <<"x", "l", "o", "c", "a", "l", "h", "o", "s", "t">>,
      <<"0", ".", "0", ".", "0", ".", "0", ":", "9", "1", "2", "4">>,
      <<"1", "0", ".", "1", ".", "2", ".", "3", ":", "8", "0">>,
      <<"1", "0", ".", "1", ".", "2", ".", "3", ":", "0">>,
      <<"1", "0", ".", "1", ".", "2", ".", "3", ":">>,
      <<"1", "0", ".", "1", ".", "2", ".", "3", ":", "6", "5", "5", "3", "6">>,
      <<"1", "0", ".", "1", ".", "2", ":", "8", "0">>,
      <<"s", "u", "i", ".", "i", "o", ":", "8", "0">>,
      <<"l", "o", "c", "a", "l", "h", "o", "s", "t", ":", "8", "0">>,
      <<"l", "o", "c", "a", "l", "h", "o", "s", "t", ":">>,
      <<":", "8", "0">>, <<":">>,
      <<"[", ":", ":", "1", "]", ":", "8", "0">>,
      <<"[", ":", ":", "1", "]">>,
      <<":", ":", "1">>,
      <<":", ":", "1", ":", "8", "0">> }

\* The default ports of the callers, lines 946, 973, 994.
DefaultPorts == { DEFAULT_INDEXER_PORT, DEFAULT_GRAPHQL_PORT, DEFAULT_FAUCET_PORT }

\* A HOST_PORT value is at hand: no method of the type tags is in use,
\* no command runs.
InitHostPort ==
    /\ v = Prim("Bool") /\ pc = "new" /\ kind = "TypeTag" /\ with_prefix = FALSE
    /\ text = <<>> /\ parsed = None /\ size = 0 /\ addrs = <<>>
    /\ other = None /\ ord = "Equal" /\ json = None
    /\ start_args = None /\ file_system = None /\ at = "idle"
    /\ with_indexer = None /\ data_ingestion_dir = None /\ config_dir = None
    /\ swarm_builder = None /\ log = <<>> /\ result = None
    /\ tempdirs = 0 /\ unhealthy_cnt = 0
    /\ genesis_args = None /\ directory = None
    /\ host_port \in { Some(i) : i \in HostPortInputs }
    /\ default_port \in DefaultPorts
    /\ socket_addr = None

\* parse_host_port(input, default_port_if_missing)
call_parse_host_port ==
    /\ is_some(host_port) /\ socket_addr = None
    /\ socket_addr' = parse_host_port(host_port.some, default_port)
    /\ UNCHANGED <<host_port, default_port>>
    /\ UNCHANGED <<typeVars, startVars, genesisVars>>

NextHostPort == call_parse_host_port

SpecHostPort == InitHostPort /\ [][NextHostPort]_vars

\* sui is run with one of the two commands.
InitCli == InitStart \/ InitGenesis
NextCli == NextStart \/ NextGenesis
SpecCli == InitCli /\ [][NextCli]_vars

(***************************************************************************)
(* C1.  Round trip: from_str of to_canonical_string(with_prefix) succeeds  *)
(* and returns the value rendered, for TypeTag, StructTag and ModuleId,    *)
(* with and without the 0x prefix.                                         *)
(***************************************************************************)
\* The value whose method produced text.
C1_Subject ==
    CASE kind = "TypeTag"   -> v
      [] kind = "StructTag" -> v.s
      [] kind = "ModuleId"  -> module_id(v.s)

\* C1: from_str(to_canonical_string(x, with_prefix)) is Ok(x), for both flags.
C1_RoundTrip ==
    pc = "from_str" => parsed.ok /\ parsed.val = C1_Subject

\* An unprefixed struct with two type arguments, one a nested struct, came back.
C1_Witness ==
    /\ pc = "from_str" /\ kind = "TypeTag" /\ ~with_prefix /\ parsed.ok
    /\ v.tag = "Struct" /\ Len(v.s.type_params) = 2
    /\ v.s.type_params[2].tag = "Struct"

(***************************************************************************)
(* C2.  StructTag::to_canonical_string(with_prefix) is the canonical       *)
(* address, "::", the module, "::", the name, and, only when type_params   *)
(* is not empty, "<", the canonical strings of the type arguments in order *)
(* (same with_prefix) joined by "," without a space, and ">".              *)
(***************************************************************************)
RECURSIVE C2_JoinFrom(_, _, _)
\* The texts parts[i], parts[i+1], ... joined by sep.
C2_JoinFrom(parts, i, sep) ==
    IF i > Len(parts) THEN <<>>
    ELSE IF i = Len(parts) THEN parts[i]
    ELSE parts[i] \o sep \o C2_JoinFrom(parts, i + 1, sep)

C2_Expected(s, wp) ==
    AccountAddress_to_canonical_display(s.address, wp)
    \o <<":", ":">> \o s.module \o <<":", ":">> \o s.name
    \o (IF s.type_params = <<>> THEN <<>>
        ELSE <<"<">>
             \o C2_JoinFrom([i \in 1..Len(s.type_params) |->
                            TypeTag_to_canonical_display(s.type_params[i], wp)],
                         1, <<",">>)
             \o <<">">>)

\* C2: the text is address::module::name, then <args joined by ","> iff there are args.
C2_StructCanonical ==
    (pc = "to_canonical_string" /\ kind = "StructTag") =>
        /\ text = C2_Expected(v.s, with_prefix)
        /\ v.s.type_params = <<>> => (\A i \in 1..Len(text) : text[i] \notin {"<", ">", ","})

\* A struct with two type arguments was rendered.
C2_Witness ==
    /\ pc = "to_canonical_string" /\ kind = "StructTag"
    /\ Len(v.s.type_params) = 2

(***************************************************************************)
(* C3.  TypeTag::to_canonical_string renders each primitive variant as its *)
(* own lowercase keyword (pairwise distinct, the same with and without the *)
(* prefix), Vector(t) as "vector<" canonical(t) ">" and Struct(s) as the   *)
(* canonical string of s, with the same with_prefix at every nested level. *)
(***************************************************************************)
C3_Keyword ==
    [ Bool    |-> <<"b", "o", "o", "l">>,
      U8      |-> <<"u", "8">>,
      U16     |-> <<"u", "1", "6">>,
      U32     |-> <<"u", "3", "2">>,
      U64     |-> <<"u", "6", "4">>,
      U128    |-> <<"u", "1", "2", "8">>,
      U256    |-> <<"u", "2", "5", "6">>,
      Address |-> <<"a", "d", "d", "r", "e", "s", "s">>,
      Signer  |-> <<"s", "i", "g", "n", "e", "r">> ]

\* C3: a primitive is its keyword, a vector is vector<inner>, a struct is its StructTag text.
C3_TypeTagCanonical ==
    (pc = "to_canonical_string" /\ kind = "TypeTag") =>
        /\ v.tag \in Primitives =>
              /\ text = C3_Keyword[v.tag]
              /\ TypeTag_to_canonical_display(v, ~with_prefix) = text
              /\ \A p \in Primitives \ {v.tag} :
                    TypeTag_to_canonical_display(Prim(p), with_prefix) # text
        /\ v.tag = "Vector" =>
              text = <<"v", "e", "c", "t", "o", "r", "<">>
                     \o TypeTag_to_canonical_display(v.inner, with_prefix)
                     \o <<">">>
        /\ v.tag = "Struct" =>
              text = StructTag_to_canonical_display(v.s, with_prefix)

\* A vector of a vector of a primitive was rendered.
C3_Witness ==
    /\ pc = "to_canonical_string" /\ kind = "TypeTag"
    /\ v.tag = "Vector" /\ v.inner.tag = "Vector"
    /\ v.inner.inner.tag \in Primitives

(***************************************************************************)
(* C4.  In every canonical rendering each address, nested ones included,   *)
(* is written as exactly 64 lowercase zero-padded hex digits, behind "0x"  *)
(* if and only if with_prefix; the module foo at 0x1 renders as "0x", 63   *)
(* zeros, "1::foo", and as the same without "0x" when with_prefix is off.  *)
(***************************************************************************)
RECURSIVE C4_StructCount(_)
RECURSIVE C4_StructCountAll(_, _)
\* The number of StructTags inside the TypeTags ps[i], ps[i+1], ...
C4_StructCountAll(ps, i) ==
    IF i > Len(ps) THEN 0
    ELSE C4_StructCount(ps[i]) + C4_StructCountAll(ps, i + 1)

\* The number of StructTags inside TypeTag t.
C4_StructCount(t) ==
    CASE t.tag = "Vector" -> C4_StructCount(t.inner)
      [] t.tag = "Struct" -> 1 + C4_StructCountAll(t.s.type_params, 1)
      [] OTHER            -> 0

\* Where a type may start in a canonical text: at 1, after "<", after ",".
C4_TypeStarts(s) == {1} \cup { i + 1 : i \in { j \in 1..Len(s) : s[j] \in {"<", ","} } }

\* The starts of the words that "::" follows and "::" does not precede: the addresses.
C4_AddressStarts(s) == { i \in C4_TypeStarts(s) : At(s, WordEnd(s, i)) = ":" }

C4_LowerHexValue(c) == CHOOSE n \in 0..15 : HexDigits[n + 1] = c

\* w is 64 lowercase hex digits, behind "0x" iff wp.
C4_IsCanonicalAddress(w, wp) ==
    LET d == IF wp THEN SubSeq(w, 3, Len(w)) ELSE w
    IN  /\ wp => (Len(w) >= 2 /\ w[1] = "0" /\ w[2] = "x")
        /\ Len(d) = 64
        /\ \A i \in 1..Len(d) : d[i] \in Range(HexDigits)

C4_Zeros(n) == [i \in 1..n |-> "0"]

\* C4: every address written is 64 lowercase hex digits, behind 0x iff with_prefix.
C4_AddressWidth ==
    pc = "to_canonical_string" =>
        /\ \A i \in C4_AddressStarts(text) :
              C4_IsCanonicalAddress(SubSeq(text, i, WordEnd(text, i) - 1), with_prefix)
        /\ Cardinality(C4_AddressStarts(text))
              = (IF kind = "ModuleId" THEN 1 ELSE C4_StructCount(v))
        \* the first address written is the value's own, byte for byte
        /\ v.tag = "Struct" =>
              LET o == IF with_prefix THEN 2 ELSE 0
              IN  \A k \in 1..LENGTH :
                     16 * C4_LowerHexValue(text[o + 2 * k - 1])
                        + C4_LowerHexValue(text[o + 2 * k]) = v.s.address[k]
        /\ (kind = "ModuleId" /\ module_id(v.s) = ModuleId(ONE, <<"f", "o", "o">>)) =>
              text = (IF with_prefix THEN <<"0", "x">> ELSE <<>>)
                     \o C4_Zeros(63) \o <<"1", ":", ":", "f", "o", "o">>

\* A struct with a struct as type argument was rendered with the prefix.
C4_Witness ==
    /\ pc = "to_canonical_string" /\ kind = "TypeTag" /\ with_prefix
    /\ v.tag = "Struct" /\ Len(v.s.type_params) >= 1
    /\ v.s.type_params[1].tag = "Struct"
    /\ Cardinality(C4_AddressStarts(text)) = 2

(***************************************************************************)
(* C5.  TypeTag values are ordered by variant first, in the order          *)
(* Bool < U8 < U64 < U128 < Address < Signer < Vector < Struct < U16 <     *)
(* U32 < U256 (every Vector and every Struct is below U16, U32 and U256),  *)
(* and by payload only when the variants are the same.                     *)
(***************************************************************************)
C5_Order ==
    << "Bool", "U8", "U64", "U128", "Address", "Signer", "Vector", "Struct",
       "U16", "U32", "U256" >>

C5_Position(tag) == CHOOSE i \in 1..Len(C5_Order) : C5_Order[i] = tag

\* C5: cmp follows the variant order first, the payloads only within one variant.
C5_VariantFirst ==
    (pc = "cmp" /\ kind = "TypeTag") =>
        /\ v.tag # other.tag =>
              ord = (IF C5_Position(v.tag) < C5_Position(other.tag)
                     THEN "Less" ELSE "Greater")
        /\ (v.tag \in {"Vector", "Struct"} /\ other.tag \in {"U16", "U32", "U256"}) =>
              ord = "Less"
        /\ (v.tag = other.tag /\ v.tag \in Primitives) => ord = "Equal"
        /\ (v.tag = other.tag /\ v.tag = "Vector") =>
              ord = TypeTag_cmp(v.inner, other.inner)
        /\ (v.tag = other.tag /\ v.tag = "Struct") =>
              ord = StructTag_cmp(v.s, other.s)

\* A struct with type arguments was compared with U16 and found smaller.
C5_Witness ==
    /\ pc = "cmp" /\ kind = "TypeTag"
    /\ v.tag = "Struct" /\ Len(v.s.type_params) = 2
    /\ other.tag = "U16" /\ ord = "Less"

(***************************************************************************)
(* C6.  The ordering of TypeTag, StructTag and ModuleId is total and       *)
(* consistent with equality: exactly one of a<b, a==b, a>b holds, cmp is   *)
(* Equal exactly when a == b, and a<b and b<c imply a<c.                   *)
(***************************************************************************)
C6_Reverse(o) ==
    IF o = "Less" THEN "Greater" ELSE IF o = "Greater" THEN "Less" ELSE "Equal"

\* C6: cmp is Equal iff ==, cmp(b, a) is its reverse, and < is transitive.
C6_TotalOrder ==
    /\ (pc = "cmp" /\ kind = "TypeTag") =>
          /\ ord \in {"Less", "Equal", "Greater"}
          /\ (ord = "Equal") <=> TypeTag_eq(v, other)
          /\ TypeTag_eq(v, other) <=> (v = other)
          /\ TypeTag_cmp(other, v) = C6_Reverse(ord)
          /\ (v.tag = "Struct" /\ other.tag = "Struct") =>
                /\ StructTag_cmp(v.s, other.s) = ord
                /\ StructTag_eq(v.s, other.s) <=> (ord = "Equal")
          /\ \A c \in Probes :
                /\ (ord = "Less" /\ TypeTag_cmp(other, c) = "Less")
                      => TypeTag_cmp(v, c) = "Less"
                /\ (TypeTag_cmp(c, v) = "Less" /\ ord = "Less")
                      => TypeTag_cmp(c, other) = "Less"
    /\ (pc = "cmp" /\ kind = "ModuleId") =>
          LET a == module_id(v.s)
              b == module_id(other.s)
          IN  /\ ord \in {"Less", "Equal", "Greater"}
              /\ (ord = "Equal") <=> ModuleId_eq(a, b)
              /\ ModuleId_eq(a, b) <=> (a = b)
              /\ ModuleId_cmp(b, a) = C6_Reverse(ord)
              /\ \A c \in { o \in Probes : o.tag = "Struct" } :
                    (ord = "Less" /\ ModuleId_cmp(b, module_id(c.s)) = "Less")
                       => ModuleId_cmp(a, module_id(c.s)) = "Less"

\* Two structs that differ only in their type arguments compared as not equal.
C6_Witness ==
    /\ pc = "cmp" /\ kind = "TypeTag"
    /\ v.tag = "Struct" /\ other.tag = "Struct"
    /\ v.s.address = other.s.address /\ v.s.module = other.s.module
    /\ v.s.name = other.s.name
    /\ Len(v.s.type_params) = 1 /\ Len(other.s.type_params) = 2
    /\ v.s.type_params[1] = other.s.type_params[1]
    /\ ord = "Less"

(***************************************************************************)
(* C7.  StructTags are compared lexicographically over (address, module,   *)
(* name, type_params) and ModuleIds over (address, name): a later field    *)
(* counts only when all earlier ones are equal; type_params is compared as *)
(* a sequence, so the same types in another order are not equal.           *)
(***************************************************************************)
\* The ordering the claim gives two sequences of types: that of the first
\* position where they differ, the shorter first when one is a prefix.
C7_SeqOrder(ps, qs) ==
    LET diff == { i \in 1..Len(ps) : i <= Len(qs) /\ ps[i] # qs[i] }
    IN  IF diff # {}
        THEN LET i == CHOOSE j \in diff : \A k \in diff : j <= k
             IN  TypeTag_cmp(ps[i], qs[i])
        ELSE IntCmp(Len(ps), Len(qs))

C7_Count(ps, x) == Cardinality({ i \in 1..Len(ps) : ps[i] = x })

\* qs holds the types of ps in another order.
C7_Reordered(ps, qs) ==
    /\ ps # qs
    /\ Len(ps) = Len(qs)
    /\ \A x \in Range(ps) \cup Range(qs) : C7_Count(ps, x) = C7_Count(qs, x)

\* C7: cmp is that of the first field that differs; type_params is a sequence.
C7_Lexicographic ==
    /\ (pc = "cmp" /\ kind = "TypeTag" /\ v.tag = "Struct" /\ other.tag = "Struct") =>
          LET s == v.s
              t == other.s
          IN  /\ ord =
                    (IF s.address # t.address
                        THEN AccountAddress_cmp(s.address, t.address)
                     ELSE IF s.module # t.module
                        THEN Identifier_cmp(s.module, t.module)
                     ELSE IF s.name # t.name
                        THEN Identifier_cmp(s.name, t.name)
                     ELSE C7_SeqOrder(s.type_params, t.type_params))
              /\ (/\ s.address = t.address /\ s.module = t.module /\ s.name = t.name
                  /\ C7_Reordered(s.type_params, t.type_params))
                    => (ord # "Equal" /\ ~StructTag_eq(s, t))
    /\ (pc = "cmp" /\ kind = "ModuleId") =>
          LET a == module_id(v.s)
              b == module_id(other.s)
          IN  ord = (IF a.address # b.address
                        THEN AccountAddress_cmp(a.address, b.address)
                     ELSE Identifier_cmp(a.name, b.name))

\* Two structs with the same two type arguments in opposite order were compared.
C7_Witness ==
    /\ pc = "cmp" /\ kind = "TypeTag"
    /\ v.tag = "Struct" /\ other.tag = "Struct"
    /\ v.s.address = other.s.address /\ v.s.module = other.s.module
    /\ v.s.name = other.s.name
    /\ Len(v.s.type_params) = 2
    /\ C7_Reordered(v.s.type_params, other.s.type_params)
    /\ ord # "Equal"

(***************************************************************************)
(* C8.  abstract_size_for_gas_metering is a structural fold: a TypeTag     *)
(* costs the base constant ENUM_BASE_ABSTRACT_SIZE + BOX_ABSTRACT_SIZE,    *)
(* plus nothing for a primitive, the size of the inner type for a Vector,  *)
(* the StructTag size for a Struct; a StructTag costs size(address) +      *)
(* size(module) + size(name) + the sizes of all its type arguments.        *)
(***************************************************************************)
RECURSIVE C8_Nodes(_)
RECURSIVE C8_NodesAll(_, _)
RECURSIVE C8_Heads(_)
RECURSIVE C8_HeadsAll(_, _)

C8_NodesAll(ps, i) ==
    IF i > Len(ps) THEN 0 ELSE C8_Nodes(ps[i]) + C8_NodesAll(ps, i + 1)

\* The number of TypeTags inside t, t included.
C8_Nodes(t) ==
    CASE t.tag = "Vector" -> 1 + C8_Nodes(t.inner)
      [] t.tag = "Struct" -> 1 + C8_NodesAll(t.s.type_params, 1)
      [] OTHER            -> 1

C8_HeadsAll(ps, i) ==
    IF i > Len(ps) THEN 0 ELSE C8_Heads(ps[i]) + C8_HeadsAll(ps, i + 1)

\* The sizes of the address, module and name of every StructTag inside t.
C8_Heads(t) ==
    CASE t.tag = "Vector" -> C8_Heads(t.inner)
      [] t.tag = "Struct" ->
             AccountAddress_abstract_size_for_gas_metering(t.s.address)
             + Len(t.s.module) + Len(t.s.name)
             + C8_HeadsAll(t.s.type_params, 1)
      [] OTHER            -> 0

RECURSIVE C8_SumSizes(_, _)
C8_SumSizes(ps, i) ==
    IF i > Len(ps) THEN 0
    ELSE TypeTag_abstract_size_for_gas_metering(ps[Len(ps) + 1 - i]) + C8_SumSizes(ps, i + 1)

C8_StructSize(s) ==
    AccountAddress_abstract_size_for_gas_metering(s.address)
    + Identifier_abstract_size_for_gas_metering(s.module)
    + Identifier_abstract_size_for_gas_metering(s.name)
    + C8_SumSizes(s.type_params, 1)

\* C8: the size is the base plus the fold over what the type contains.
C8_SizeIsFold ==
    pc = "abstract_size_for_gas_metering" =>
        /\ kind = "TypeTag" =>
              /\ size = (ENUM_BASE_ABSTRACT_SIZE + BOX_ABSTRACT_SIZE)
                        + (CASE v.tag \in Primitives -> 0
                             [] v.tag = "Vector" ->
                                    TypeTag_abstract_size_for_gas_metering(v.inner)
                             [] v.tag = "Struct" -> C8_StructSize(v.s))
              /\ size = (ENUM_BASE_ABSTRACT_SIZE + BOX_ABSTRACT_SIZE) * C8_Nodes(v)
                        + C8_Heads(v)
        /\ kind = "StructTag" =>
              /\ size = C8_StructSize(v.s)
              /\ size + (ENUM_BASE_ABSTRACT_SIZE + BOX_ABSTRACT_SIZE)
                    = (ENUM_BASE_ABSTRACT_SIZE + BOX_ABSTRACT_SIZE) * C8_Nodes(v)
                      + C8_Heads(v)

\* The size of a struct with a struct as type argument was computed.
C8_Witness ==
    /\ pc = "abstract_size_for_gas_metering" /\ kind = "TypeTag"
    /\ v.tag = "Struct" /\ Len(v.s.type_params) = 1
    /\ v.s.type_params[1].tag = "Struct"
    /\ size > 2 * TYPETAG_ENUM_ABSTRACT_SIZE + 2 * LENGTH

(***************************************************************************)
(* C9.  The gas size is monotone under nesting: size(Vector(t)) >= size(t) *)
(* for every TypeTag t, and a StructTag with one more type argument        *)
(* appended costs strictly more than the same StructTag without it.        *)
(***************************************************************************)
C9_WithoutLast(s) ==
    StructTag(s.address, s.module, s.name,
              SubSeq(s.type_params, 1, Len(s.type_params) - 1))

\* C9: size(Vector(t)) >= size(t); one more type argument costs strictly more.
C9_Monotone ==
    pc = "abstract_size_for_gas_metering" =>
        /\ (kind = "TypeTag" /\ v.tag = "Vector") =>
              size >= TypeTag_abstract_size_for_gas_metering(v.inner)
        /\ kind = "TypeTag" =>
              TypeTag_abstract_size_for_gas_metering(Vector(v)) >= size
        /\ (kind = "StructTag" /\ Len(v.s.type_params) > 0) =>
              size > StructTag_abstract_size_for_gas_metering(C9_WithoutLast(v.s))
        /\ kind = "StructTag" =>
              \A p \in Probes :
                 StructTag_abstract_size_for_gas_metering(
                     StructTag(v.s.address, v.s.module, v.s.name,
                               Append(v.s.type_params, p))) > size

\* The size of a vector of a struct was computed.
C9_Witness ==
    /\ pc = "abstract_size_for_gas_metering" /\ kind = "TypeTag"
    /\ v.tag = "Vector" /\ v.inner.tag = "Struct"
    /\ size > TYPETAG_ENUM_ABSTRACT_SIZE

(***************************************************************************)
(* C10.  all_addresses returns the addresses in first-seen pre-order       *)
(* without duplicates: a struct's own address before those of its type     *)
(* arguments, the type arguments from left to right, an address that       *)
(* occurs several times once, where it occurs first; a struct at 0xa with  *)
(* a type argument struct at 0xb yields [0xa, 0xb].                        *)
(***************************************************************************)
RECURSIVE C10_PreOrder(_)
RECURSIVE C10_PreOrderAll(_, _)

C10_PreOrderAll(ps, i) ==
    IF i > Len(ps) THEN <<>> ELSE C10_PreOrder(ps[i]) \o C10_PreOrderAll(ps, i + 1)

\* Every address occurrence inside t, a struct's own before its type arguments'.
C10_PreOrder(t) ==
    CASE t.tag = "Vector" -> C10_PreOrder(t.inner)
      [] t.tag = "Struct" -> <<t.s.address>> \o C10_PreOrderAll(t.s.type_params, 1)
      [] OTHER            -> <<>>

\* The positions of list that hold the first occurrence of their element.
C10_FirstPositions(list) ==
    { i \in 1..Len(list) : \A j \in 1..(i - 1) : list[j] # list[i] }

\* addrs is list with only the first occurrence of every element kept.
C10_IsFirstSeen(set, list) ==
    LET first == C10_FirstPositions(list)
    IN  /\ Len(set) = Cardinality(first)
        /\ \A i \in 1..Len(set) :
              \E p \in first :
                 /\ list[p] = set[i]
                 /\ Cardinality({ q \in first : q < p }) = i - 1

\* C10: all_addresses is the pre-order list of addresses, first occurrences only.
C10_FirstSeenPreOrder ==
    pc = "all_addresses" =>
        /\ C10_IsFirstSeen(addrs, C10_PreOrder(v))
        /\ \A i, j \in 1..Len(addrs) : i # j => addrs[i] # addrs[j]
        /\ v.tag = "Struct" => (Len(addrs) >= 1 /\ addrs[1] = v.s.address)
        /\ (/\ v.tag = "Struct" /\ v.s.address = Addr_a
            /\ Len(v.s.type_params) = 1
            /\ v.s.type_params[1].tag = "Struct"
            /\ v.s.type_params[1].s.address = Addr_b
            /\ v.s.type_params[1].s.type_params = <<>>)
              => addrs = <<Addr_a, Addr_b>>

\* The struct's own address occurs again two levels down and is listed once, first.
C10_Witness ==
    /\ pc = "all_addresses" /\ kind = "StructTag"
    /\ v.s.address = Addr_a
    /\ Len(v.s.type_params) = 1
    /\ v.s.type_params[1].tag = "Struct"
    /\ v.s.type_params[1].s.address = Addr_b
    /\ Len(v.s.type_params[1].s.type_params) = 1
    /\ v.s.type_params[1].s.type_params[1].tag = "Struct"
    /\ v.s.type_params[1].s.type_params[1].s.address = Addr_a
    /\ addrs = <<Addr_a, Addr_b>>

(***************************************************************************)
(* C11.  all_addresses is complete and exact: an address is in the result  *)
(* if and only if it is the address field of a StructTag nested anywhere   *)
(* inside the type, under any depth of vectors and type arguments; a type  *)
(* without a struct yields the empty set.                                  *)
(***************************************************************************)
RECURSIVE C11_NestedStructs(_)

\* Every StructTag inside t, t's own included.
C11_NestedStructs(t) ==
    CASE t.tag = "Vector" -> C11_NestedStructs(t.inner)
      [] t.tag = "Struct" ->
            {t.s} \cup UNION { C11_NestedStructs(t.s.type_params[i]) :
                                 i \in 1..Len(t.s.type_params) }
      [] OTHER            -> {}

\* The type all_addresses was called on, as a TypeTag.
C11_Subject == v

\* C11: the result holds exactly the address fields of the nested StructTags.
C11_CompleteAndExact ==
    pc = "all_addresses" =>
        /\ Range(addrs) = { s.address : s \in C11_NestedStructs(C11_Subject) }
        /\ (C11_NestedStructs(C11_Subject) = {}) => addrs = <<>>

\* The address of a struct under two vectors was found.
C11_Witness ==
    /\ pc = "all_addresses" /\ kind = "TypeTag"
    /\ v.tag = "Vector" /\ v.inner.tag = "Vector" /\ v.inner.inner.tag = "Struct"
    /\ addrs = <<v.inner.inner.s.address>>

(***************************************************************************)
(* C12.  Parsing a malformed type string returns an error and no value:    *)
(* "vector<u64" fails with unbalanced-generics, "0xzz::m::T" with          *)
(* malformed-address; so does every canonical string that lost its closing *)
(* ">" or had an address digit replaced by a character that is no hex      *)
(* digit.                                                                  *)
(***************************************************************************)
\* The canonical string the malformed input was made from.
C12_Canonical ==
    IF kind = "TypeTag" THEN TypeTag_to_canonical_display(v, with_prefix)
    ELSE StructTag_to_canonical_display(v.s, with_prefix)

\* C12: from_str of a malformed string is an error of the kind of the damage.
C12_MalformedRejected ==
    pc = "from_str_malformed" =>
        /\ ~parsed.ok
        /\ "val" \notin DOMAIN parsed
        /\ (kind = "TypeTag" /\ text = <<"v", "e", "c", "t", "o", "r", "<", "u", "6", "4">>)
              => parsed.err = "unbalanced-generics"
        /\ text = <<"0", "x", "z", "z", ":", ":", "m", ":", ":", "T">>
              => parsed.err = "malformed-address"
        /\ text \o <<">">> = C12_Canonical => parsed.err = "unbalanced-generics"
        /\ (\E i \in AddressDigitStarts(C12_Canonical) :
                 text = [C12_Canonical EXCEPT ![i] = "z"])
              => parsed.err = "malformed-address"

\* "vector<u64" was parsed as a TypeTag and rejected.
C12_Witness ==
    /\ pc = "from_str_malformed" /\ kind = "TypeTag"
    /\ text = <<"v", "e", "c", "t", "o", "r", "<", "u", "6", "4">>
    /\ ~parsed.ok /\ parsed.err = "unbalanced-generics"

(***************************************************************************)
(* C13.  Decoding accepts the historical spellings: an encoding with the   *)
(* field named type_params decodes to the same StructTag as the one with   *)
(* type_args, and for every variant the capitalized name decodes to the    *)
(* same variant as the lowercase name.                                     *)
(***************************************************************************)
\* The value that was encoded.
C13_Subject == IF kind = "TypeTag" THEN v ELSE v.s

\* C13: every spelling of an encoding, the canonical one included, decodes
\* to the value that was encoded; a capitalized name selects the variant
\* of the lowercase name.
C13_AliasesDecodeAlike ==
    /\ pc = "deserialize" =>
          /\ parsed.ok
          /\ parsed.val = C13_Subject
    /\ pc = "new" =>
          \A tag \in Variants :
             /\ VariantAlias(tag) # VariantRename(tag)
             /\ VariantOfName(VariantAlias(tag)) = VariantOfName(VariantRename(tag))
             /\ VariantOfName(VariantAlias(tag)) = tag

RECURSIVE C13_Keys(_)
\* The keys and variant names that occur in an encoding.
C13_Keys(d) ==
    CASE d.ser = "unit_variant" -> {d.variant}
      [] d.ser = "newtype_variant" -> {d.variant} \cup C13_Keys(d.value)
      [] d.ser = "struct" ->
            UNION { {d.fields[i][1]} \cup C13_Keys(d.fields[i][2]) :
                    i \in 1..Len(d.fields) }
      [] d.ser = "seq" -> UNION { C13_Keys(d.items[i]) : i \in 1..Len(d.items) }
      [] OTHER -> {}

\* A struct spelled with Struct, type_params and a capitalized type argument
\* was decoded to the value that had been encoded.
C13_Witness ==
    /\ pc = "deserialize" /\ kind = "TypeTag"
    /\ {"Struct", "type_params", "U8"} \subseteq C13_Keys(json)
    /\ "type_args" \notin C13_Keys(json)
    /\ parsed.ok /\ parsed.val = v

(***************************************************************************)
(* C14.  Encoding a TypeTag and decoding the result returns a value equal  *)
(* to the original, and the encoding holds the canonical spelling only:    *)
(* lowercase variant names and the field name type_args, never an alias.   *)
(***************************************************************************)
\* The lowercase variant names and the field names of the canonical spelling.
C14_CanonicalNames ==
    { "bool", "u8", "u16", "u32", "u64", "u128", "u256", "address", "signer",
      "vector", "struct" }
    \cup { "address", "module", "name", "type_args" }

\* The historical spellings.
C14_AliasNames ==
    { "Bool", "U8", "U16", "U32", "U64", "U128", "U256", "Address", "Signer",
      "Vector", "Struct", "type_params" }

\* C14: the encoding is canonically spelled and decodes to the value encoded.
C14_EncodeDecode ==
    /\ pc = "serialize" =>
          /\ C13_Keys(json) \subseteq C14_CanonicalNames
          /\ C13_Keys(json) \cap C14_AliasNames = {}
          /\ kind = "TypeTag" =>
                LET decoded == TypeTag_deserialize(json)
                IN  decoded.ok /\ TypeTag_eq(decoded.val, v)
    /\ (pc = "deserialize" /\ kind = "TypeTag" /\ json = TypeTag_serialize(v)) =>
          /\ parsed.ok
          /\ TypeTag_eq(parsed.val, v)

\* The struct of the source's test, 0x1::abc::abc<u8> up to its names, came back.
C14_Witness ==
    /\ pc = "deserialize" /\ kind = "TypeTag"
    /\ json = TypeTag_serialize(v)
    /\ v.tag = "Struct" /\ v.s.address = ONE /\ v.s.type_params = <<Prim("U8")>>
    /\ parsed.ok /\ parsed.val = v
    /\ "type_args" \in C13_Keys(json)

(***************************************************************************)
(* C15.  Display is the human form for TypeTag and StructTag: an address   *)
(* is written as 0x and its hex digits without zero-padding (0x1 for the   *)
(* address one), type arguments are separated by a comma and a space, and  *)
(* the text is otherwise the canonical one.  The Display of ModuleId is    *)
(* not that form: it is the canonical form without prefix.                 *)
(***************************************************************************)
\* The positions of text where a "0x" opens a word.
C15_AddressStarts(s) ==
    { i \in 1..Len(s) : /\ s[i] = "0" /\ At(s, i + 1) = "x"
                        /\ (i = 1 \/ s[i - 1] \notin WordChars) }

\* Every address of s is 0x and lowercase hex digits without a leading zero.
C15_AddressesShort(s) ==
    \A i \in C15_AddressStarts(s) :
        LET d == SubSeq(s, i + 2, WordEnd(s, i) - 1)
        IN  /\ Len(d) >= 1
            /\ \A k \in 1..Len(d) : d[k] \in Range(HexDigits)
            /\ d[1] # "0" \/ Len(d) = 1

\* Every comma of s is followed by a space, and s has no other space.
C15_CommaSpace(s) ==
    /\ \A i \in 1..Len(s) : s[i] = "," => At(s, i + 1) = " "
    /\ \A i \in 1..Len(s) : s[i] = " " => (i > 1 /\ s[i - 1] = ",")

RECURSIVE C15_Canonicalized(_, _)
\* s from position i on with the spaces removed and every 0x address
\* zero-padded to 64 digits.
C15_Canonicalized(s, i) ==
    LET special == { p \in i..Len(s) : s[p] = " " \/ p \in C15_AddressStarts(s) }
        p == CHOOSE q \in special : \A r \in special : q <= r
        e == WordEnd(s, p)
    IN  IF special = {} THEN SubSeq(s, i, Len(s))
        ELSE SubSeq(s, i, p - 1)
             \o (IF s[p] = " " THEN C15_Canonicalized(s, p + 1)
                 ELSE <<"0", "x">> \o C4_Zeros(2 * LENGTH - (e - p - 2))
                      \o SubSeq(s, p + 2, e - 1) \o C15_Canonicalized(s, e))

\* The canonical rendering of the value that was displayed.
C15_Canonical(wp) ==
    CASE kind = "TypeTag"   -> TypeTag_to_canonical_display(v, wp)
      [] kind = "StructTag" -> StructTag_to_canonical_display(v.s, wp)
      [] kind = "ModuleId"  -> ModuleId_to_canonical_display(module_id(v.s), wp)

\* text is the human form of the value displayed.
C15_IsHumanForm ==
    /\ C15_AddressesShort(text)
    /\ C15_CommaSpace(text)
    /\ C15_Canonicalized(text, 1) = C15_Canonical(TRUE)

\* The claim as stated: the Display of all three types is the human form,
\* and so differs from the canonical rendering of a value with an address.
C15_AllThreeHumanForm ==
    pc = "fmt" =>
        /\ C15_IsHumanForm
        /\ v.tag = "Struct" => text # C15_Canonical(FALSE)

\* C15: the Display of TypeTag and StructTag is the human form, and differs
\* from the canonical rendering where that form differs; the Display of
\* ModuleId is the canonical rendering without prefix.
C15_HumanFormOfTypes ==
    pc = "fmt" =>
        /\ kind \in {"TypeTag", "StructTag"} =>
              /\ C15_IsHumanForm
              /\ Cardinality(C15_AddressStarts(text)) = C4_StructCount(v)
              /\ text # C15_Canonical(FALSE) <=> C11_NestedStructs(v) # {}
              /\ text # C15_Canonical(TRUE) <=>
                    \E s \in C11_NestedStructs(v) :
                        s.address[1] < 16 \/ Len(s.type_params) >= 2
              /\ (v.tag = "Struct" /\ v.s.address = ONE) =>
                    SubSeq(text, 1, 5) = <<"0", "x", "1", ":", ":">>
        /\ kind = "ModuleId" =>
              /\ ~C15_IsHumanForm
              /\ text = C15_Canonical(FALSE)

\* 0x1::foo::Bar with two type arguments was displayed.
C15_Witness ==
    /\ pc = "fmt" /\ kind = "TypeTag"
    /\ v.tag = "Struct" /\ v.s.address = ONE /\ Len(v.s.type_params) = 2
    /\ SubSeq(text, 1, 13) = <<"0", "x", "1", ":", ":", "f", "o", "o", ":", ":", "B", "a", "r">>
    /\ \E i \in 1..(Len(text) - 1) : text[i] = "," /\ text[i + 1] = " "

(***************************************************************************)
(* C16.  The Display of a ModuleId is to_canonical_display(false): the 64  *)
(* zero-padded lowercase hex digits of the address without 0x, "::", and   *)
(* the module name.                                                        *)
(***************************************************************************)
\* The ModuleId that was displayed.
C16_Id == module_id(v.s)

\* C16: Display of ModuleId equals to_canonical_display(false), digit for digit.
C16_DisplayIsCanonical ==
    (pc = "fmt" /\ kind = "ModuleId") =>
        /\ text = ModuleId_to_canonical_display(C16_Id, FALSE)
        /\ Len(text) = 2 * LENGTH + 2 + Len(C16_Id.name)
        /\ C4_IsCanonicalAddress(SubSeq(text, 1, 2 * LENGTH), FALSE)
        /\ \A k \in 1..LENGTH :
              16 * C4_LowerHexValue(text[2 * k - 1]) + C4_LowerHexValue(text[2 * k])
                 = C16_Id.address[k]
        /\ SubSeq(text, 2 * LENGTH + 1, 2 * LENGTH + 2) = <<":", ":">>
        /\ SubSeq(text, 2 * LENGTH + 3, Len(text)) = C16_Id.name

\* 0x1::foo was displayed as 63 zeros, 1, "::foo", as the source's test has it.
C16_Witness ==
    /\ pc = "fmt" /\ kind = "ModuleId"
    /\ C16_Id = ModuleId(ONE, <<"f", "o", "o">>)
    /\ text = C4_Zeros(63) \o <<"1", ":", ":", "f", "o", "o">>

(***************************************************************************)
(* C17.  start with --with-graphql and without --with-indexer enables the  *)
(* indexer: it is started in reader mode, then in writer mode, at          *)
(* 0.0.0.0:9124, before the GraphQL server is started; GraphQL is never    *)
(* started without the indexer started before it.                          *)
(***************************************************************************)
\* The positions of log that hold the operation op.
C17_Positions(op) == { i \in 1..Len(log) : log[i].op = op }

\* C17: a started GraphQL server follows an indexer reader and writer, at
\* the default address when only --with-graphql was given.
C17_GraphqlAfterIndexer ==
    /\ \A g \in C17_Positions("graphql") :
          \E r \in C17_Positions("indexer_reader"), w \in C17_Positions("indexer_writer") :
             /\ r < w /\ w < g
             /\ is_none(start_args.with_indexer) =>
                   log[r].address = [v4 |-> <<0, 0, 0, 0>>, port |-> 9124]
    /\ (is_some(start_args.with_graphql) /\ at \notin {"start", "returned"}) =>
          is_some(with_indexer)
    /\ (is_some(start_args.with_graphql) /\ at = "faucet") =>
          /\ C17_Positions("indexer_reader") # {}
          /\ C17_Positions("indexer_writer") # {}
          /\ C17_Positions("graphql") # {}

\* Only --with-graphql was given; reader, writer and GraphQL were started.
C17_Witness ==
    /\ is_none(start_args.with_indexer) /\ is_some(start_args.with_graphql)
    /\ Len(log) >= 3
    /\ log[Len(log) - 2].op = "indexer_reader"
    /\ log[Len(log) - 2].address = [v4 |-> <<0, 0, 0, 0>>, port |-> 9124]
    /\ log[Len(log) - 1].op = "indexer_writer"
    /\ log[Len(log)].op = "graphql"

(***************************************************************************)
(* C18.  start with the indexer enabled (--with-indexer, or implied by     *)
(* --with-graphql) and --no-full-node returns an error before a genesis is *)
(* generated and before the swarm is built or launched, nothing started:   *)
(* "Cannot start the indexer without a fullnode.", unless --force-regenesis*)
(* was given with --network.config, whose check comes first.               *)
(***************************************************************************)
\* The indexer is enabled and there is no fullnode.
C18_IndexerWithoutFullnode ==
    /\ is_some(start_args.with_indexer) \/ is_some(start_args.with_graphql)
    /\ start_args.no_full_node

\* The claim as stated: the error is always the one about the fullnode.
C18_AlwaysFullnodeError ==
    (at # "start" /\ C18_IndexerWithoutFullnode) =>
        /\ at = "returned"
        /\ result = Err("Cannot start the indexer without a fullnode.")
        /\ log = <<>>

\* C18: start returns before anything is generated, built or started, with
\* the fullnode error unless the check on --force-regenesis fails first.
C18_RejectedBeforeAnything ==
    (at # "start" /\ C18_IndexerWithoutFullnode) =>
        /\ at = "returned"
        /\ log = <<>>
        /\ swarm_builder = None
        /\ tempdirs = 0
        /\ result =
              IF start_args.force_regenesis /\ is_some(start_args.config)
              THEN Err("Cannot pass '--force-regenesis' and '--network.config' at the same time.")
              ELSE Err("Cannot start the indexer without a fullnode.")

\* The indexer was implied by --with-graphql alone and start refused.
C18_Witness ==
    /\ is_none(start_args.with_indexer) /\ is_some(start_args.with_graphql)
    /\ start_args.no_full_node
    /\ at = "returned"
    /\ result = Err("Cannot start the indexer without a fullnode.")
    /\ log = <<>>

(***************************************************************************)
(* C19.  --data-ingestion-dir with --no-full-node: the claim is that start *)
(* rejects the two together and launches no network with a data ingestion *)
(* directory and zero fullnodes.                                           *)
(***************************************************************************)
\* C19: start given both flags builds and launches no swarm with a data
\* ingestion directory and no fullnode, and goes on to start nothing.
C19_IngestionDirNeedsFullnode ==
    (is_some(start_args.data_ingestion_dir) /\ start_args.no_full_node) =>
        /\ at \in {"start", "configure", "swarm", "returned"}
        /\ \A i \in C17_Positions("swarm_build") :
              ~(is_some(log[i].swarm.data_ingestion_dir) /\ log[i].swarm.fullnode_count = 0)
        /\ C17_Positions("swarm_launch") = {}

(***************************************************************************)
(* C20.  Whenever the indexer writer is started its data ingestion         *)
(* directory is set: the one given, or a fresh temporary directory when    *)
(* none was given, and it is the directory configured on the swarm, which  *)
(* has a fullnode.                                                         *)
(***************************************************************************)
\* C20: the writer's directory is Some, the swarm's, and fresh when defaulted.
C20_WriterHasIngestionDir ==
    \A w \in C17_Positions("indexer_writer") :
        /\ is_some(log[w].data_ingestion_dir)
        /\ \E b \in C17_Positions("swarm_build") :
              /\ b < w
              /\ log[b].swarm.data_ingestion_dir = log[w].data_ingestion_dir
              /\ log[b].swarm.fullnode_count = 1
        /\ is_some(start_args.data_ingestion_dir) =>
              log[w].data_ingestion_dir = start_args.data_ingestion_dir
        /\ is_none(start_args.data_ingestion_dir) =>
              /\ log[w].data_ingestion_dir = Some(TempDir(tempdirs))
              /\ log[w].data_ingestion_dir.some # config_dir

\* After a regenesis without --data-ingestion-dir the writer got the second
\* temporary directory, the first being the configuration's.
C20_Witness ==
    /\ start_args.force_regenesis /\ is_none(start_args.data_ingestion_dir)
    /\ C17_Positions("indexer_writer") # {}
    /\ config_dir = TempDir(1)
    /\ data_ingestion_dir = Some(TempDir(2))
    /\ \E w \in C17_Positions("indexer_writer") :
          log[w].data_ingestion_dir = Some(TempDir(2))

(***************************************************************************)
(* C21.  --epoch-duration-ms in start: given while a genesis exists and    *)
(* without --force-regenesis, start fails before it generates, builds or   *)
(* launches anything; with --force-regenesis the swarm's epoch duration is *)
(* the value given, 60000 ms when none is; a genesis generated because     *)
(* none exists gets the value given.                                       *)
(***************************************************************************)
\* --epoch-duration-ms is given, a genesis exists, --force-regenesis is not given.
C21_EpochOnExistingGenesis ==
    /\ is_some(start_args.epoch_duration_ms)
    /\ file_system.genesis_blob
    /\ ~start_args.force_regenesis

\* C21: the flag on an existing genesis makes start fail at once; a
\* regenesis runs with the value given or with 60000.
C21_EpochDuration ==
    /\ (at # "start" /\ C21_EpochOnExistingGenesis) =>
          /\ at = "returned"
          /\ log = <<>>
          /\ swarm_builder = None
          /\ ~result.ok
          /\ ~C18_IndexerWithoutFullnode =>
                result.err = "Epoch duration can only be set when passing the '--force-regenesis' flag, or when there is no genesis configuration in the default Sui configuration folder or the given network.config argument."
    /\ \A b \in C17_Positions("swarm_build") :
          start_args.force_regenesis =>
             log[b].swarm.epoch_duration_ms =
                (IF is_some(start_args.epoch_duration_ms)
                 THEN start_args.epoch_duration_ms ELSE Some(60000))
    /\ \A g \in C17_Positions("genesis") :
          /\ log[g].epoch_duration_ms = start_args.epoch_duration_ms
          /\ ~start_args.force_regenesis
          /\ ~file_system.genesis_blob \/ is_none(start_args.epoch_duration_ms)

\* A regenesis without --epoch-duration-ms was launched with 60000 ms.
C21_Witness ==
    /\ start_args.force_regenesis /\ is_none(start_args.epoch_duration_ms)
    /\ C17_Positions("swarm_launch") # {}
    /\ \E b \in C17_Positions("swarm_build") :
          log[b].swarm.epoch_duration_ms = Some(60000)

(***************************************************************************)
(* C22.  The committee size.  A generated genesis has --committee-size     *)
(* validators, one when the flag is not given, and zero is an error: in    *)
(* start --force-regenesis, in start generating the missing genesis, in    *)
(* sui genesis with a configuration without validator info.  A network     *)
(* configuration start finds keeps its validators whatever the flag says.  *)
(***************************************************************************)
\* The number of validators asked for: the flag, 1 without it.
C22_Asked(committee_size) ==
    IF is_none(committee_size) THEN 1 ELSE committee_size.some

\* start has run its configuration step / genesis has returned.
C22_StartConfigured == start_args # None /\ at \notin {"start", "configure"}
C22_GenesisReturned == genesis_args # None /\ at = "returned"

\* start generated the genesis that was missing.
C22_AutoGenerated == start_args # None /\ C17_Positions("genesis") # {}

\* start uses a network configuration it found.
C22_Existing ==
    /\ start_args # None /\ ~start_args.force_regenesis
    /\ is_some(start_args.config) \/ file_system.network_config

\* The genesis command builds a network from a configuration without
\* validator info.
C22_GenesisWithoutValidatorInfo ==
    /\ genesis_args # None
    /\ is_none(genesis_args.write_config)
    /\ is_none(genesis_args.benchmark_ips)
    /\ \/ is_none(genesis_args.from_config)
       \/ /\ genesis_args.from_config.some.holds # Corrupt
          /\ is_none(genesis_args.from_config.some.holds.validator_config_info)

\* C22: a generated genesis has the number of validators asked for, 1 by
\* default, never 0; a configuration found keeps its own number.
C22_CommitteeSize ==
    /\ (C22_StartConfigured /\ start_args.force_regenesis) =>
          /\ start_args.committee_size = Some(0) =>
                at = "returned" /\ ~result.ok /\ log = <<>>
          /\ \A b \in C17_Positions("swarm_build") :
                /\ log[b].swarm.committee_size =
                      Some(C22_Asked(start_args.committee_size))
                /\ log[b].swarm.network_config = None
    /\ C22_AutoGenerated =>
          /\ start_args.committee_size = Some(0) =>
                /\ at = "returned" /\ ~result.ok
                /\ C17_Positions("swarm_build") = {}
                /\ SUI_NETWORK_CONFIG \notin DOMAIN directory
          /\ \A b \in C17_Positions("swarm_build") :
                /\ log[b].swarm.network_config.some.validators =
                      C22_Asked(start_args.committee_size)
                /\ directory[SUI_NETWORK_CONFIG].validators =
                      C22_Asked(start_args.committee_size)
    /\ (C22_GenesisReturned /\ C22_GenesisWithoutValidatorInfo) =>
          /\ genesis_args.committee_size = Some(0) => ~result.ok
          /\ result.ok =>
                directory[SUI_NETWORK_CONFIG].validators =
                   C22_Asked(genesis_args.committee_size)
    /\ C22_Existing =>
          \A b \in C17_Positions("swarm_build") :
             /\ log[b].swarm.network_config = Some(ExistingNetworkConfig)
             /\ log[b].swarm.committee_size = None
             /\ C17_Positions("genesis") = {}

\* start generated the missing genesis with --committee-size 4 and built
\* the swarm from it.
C22_Witness ==
    /\ C22_AutoGenerated
    /\ start_args.committee_size = Some(4)
    /\ \E b \in C17_Positions("swarm_build") :
          log[b].swarm.network_config.some.validators = 4

(***************************************************************************)
(* C23.  parse_host_port: nothing, a port, a host, or both.  The default   *)
(* port is used exactly when the input has no port; the host is 0.0.0.0    *)
(* when the input has none; localhost is 127.0.0.1; what is none of the    *)
(* four is an error.                                                       *)
(***************************************************************************)
\* A port: decimal digits of a value that fits a u16.
C23_IsPort(s) ==
    /\ s # <<>>
    /\ \A i \in 1..Len(s) : s[i] \in DecDigitChars
    /\ DecimalValue(s, Len(s)) <= 65535

\* The address a host stands for: 127.0.0.1 for localhost, the four octets
\* of a dotted address, an IPv6 address in brackets.
C23_Localhost == <<"l", "o", "c", "a", "l", "h", "o", "s", "t">>
C23_IsV4(s) == s = C23_Localhost \/ ParseIpv4(s).ok
C23_V4(s) == IF s = C23_Localhost THEN <<127, 0, 0, 1>> ELSE ParseIpv4(s).val
C23_IsV6(s) ==
    /\ Len(s) >= 4 /\ s[1] = "[" /\ s[Len(s)] = "]"
    /\ Contains(s, <<":", ":">>)
    /\ \A i \in 2..(Len(s) - 1) : s[i] \in HexDigitChars \cup {":"}

\* The places where the input splits into a host and a port.
C23_Splits(s) ==
    { p \in 1..Len(s) :
         /\ s[p] = ":"
         /\ C23_IsPort(SubSeq(s, p + 1, Len(s)))
         /\ C23_IsV4(SubSeq(s, 1, p - 1)) \/ C23_IsV6(SubSeq(s, 1, p - 1)) }

C24_NonEmptyMessage ==
    "Cannot run genesis with non-empty Sui config directory {}, please use the --force/-f option to remove the existing configuration"

\* genesis is called without --force and --write-config on a directory
\* that has entries.
C24_Called ==
    /\ at = "genesis" /\ at' = "returned"
    /\ ~genesis_args.force
    /\ is_none(genesis_args.write_config)
    /\ directory # None /\ DOMAIN directory # {}

\* The entries are exactly the client config and the keystore.
C24_ExactlyTwo == DOMAIN directory = {SUI_CLIENT_CONFIG, SUI_KEYSTORE_FILENAME}

\* The keystore and the client config were read and written back: the old
\* keys come first in the keystore, the client config keeps what it had set,
\* and without --from-config and --benchmark-ips the accounts of the
\* network are the addresses of the old keys.
C24_Reused ==
    LET old_keys == directory[SUI_KEYSTORE_FILENAME].keys
        new_keys == directory'[SUI_KEYSTORE_FILENAME].keys
        old_client == directory[SUI_CLIENT_CONFIG]
        new_client == directory'[SUI_CLIENT_CONFIG]
    IN  /\ Len(new_keys) >= Len(old_keys)
        /\ SubSeq(new_keys, 1, Len(old_keys)) = old_keys
        /\ new_client.keystore = old_client.keystore
        /\ new_client.active_address = old_client.active_address
        /\ new_client.active_env = old_client.active_env
        /\ Range(old_client.envs) \subseteq Range(new_client.envs)
        /\ (is_none(genesis_args.from_config) /\ is_none(genesis_args.benchmark_ips)) =>
              directory'[SUI_NETWORK_CONFIG].accounts = [addresses |-> old_keys]

C24_Step ==
    C24_Called =>
       IF C24_ExactlyTwo
       THEN /\ result' # Err(C24_NonEmptyMessage)
            /\ result'.ok =>
                  /\ C24_Reused
                  /\ {SUI_NETWORK_CONFIG, SUI_GENESIS_FILENAME} \subseteq DOMAIN directory'
       ELSE /\ ~result'.ok
            /\ directory' = directory
            /\ log' = <<>>

\* C24: every call of genesis on a directory with entries, without --force
\* and --write-config, is an error that leaves the directory alone, or finds
\* exactly the client config and the keystore and goes on with them.
C24_NonEmptyDirectory == [][C24_Step]_vars

\* genesis refused the directory that holds the client config, the keystore
\* and one more entry, and left it as it was.
C24_Witness ==
    /\ genesis_args # None /\ at = "returned"
    /\ ~genesis_args.force /\ is_none(genesis_args.write_config)
    /\ result = Err(C24_NonEmptyMessage)
    /\ directory = Put(ClientAndKeystore, "other", [data |-> TRUE])

=============================================================================
